---------------------------- MODULE Spec2Model ----------------------------
(***************************************************************************)
(* Model of the PDF structural-extraction pipeline of                      *)
(* src/src/core/enhanced_extractor.py (class EnhancedPDFExtractor), of     *)
(* PDFExtractor (src/src/core/extractor.py) and of the programs that use   *)
(* them: src/src/main.py, src/src/app.py and the GUI of                    *)
(* src/src/pdf_knowledge_extractor.py.                                     *)
(*                                                                         *)
(* Python strings are sequences of one-character strings, so that strip,   *)
(* split and join are computed and not assumed.  Floats are exact          *)
(* rationals: an average font size is a record [num, den], and a           *)
(* comparison with page_height * 0.9 is the comparison 10*y > 9*H, which   *)
(* agrees with the float comparison for the integer positions and heights  *)
(* used here.  A Python exception is an outcome value (Raise) of the call  *)
(* that can raise; a try/except is the case distinction on that outcome.   *)
(***************************************************************************)
EXTENDS Integers, Sequences, FiniteSets, TLC

VARIABLES
    call,       \* the call under study: [fn |-> name, ...arguments]
    ret,        \* [done, value]: its return value once the call has run
    doc,        \* extract_comprehensive: the fitz document handle
    result,     \* extract_comprehensive: the result dictionary being built
    dpc,        \* extract_comprehensive: position of the handler
    app,        \* the caller of the extractors: its position and local variables
    disk        \* the scratch directories on disk: directory |-> set of file names

vars == <<call, ret, doc, result, dpc, app, disk>>

\* ret before and after the call has returned
NoRet == [done |-> FALSE]
Returned(v) == [done |-> TRUE, value |-> v]

\* the outcome of a call: a raised exception or a returned value
Raise == [raised |-> TRUE]
Return(v) == [raised |-> FALSE, value |-> v]

\* Python's None where a string is expected: a one-element sequence holding
\* a token that is no character, so it differs from every string
PyNone == <<"None">>

(***************************************************************************)
(* Python string helpers                                                   *)
(***************************************************************************)
\* the no-break space U+00A0, one character
Nbsp == "nbsp"

\* str.isspace(), and \s of re, for the characters of the model's alphabets
Whitespace == {" ", "\t", "\n", Nbsp}

RECURSIVE LStrip(_)
LStrip(s) ==
    IF s = <<>> THEN <<>>
    ELSE IF Head(s) \in Whitespace THEN LStrip(Tail(s)) ELSE s

RECURSIVE RStrip(_)
RStrip(s) ==
    IF s = <<>> THEN <<>>
    ELSE IF s[Len(s)] \in Whitespace THEN RStrip(SubSeq(s, 1, Len(s) - 1)) ELSE s

\* str.strip()
Strip(s) == RStrip(LStrip(s))

\* "".join(parts), and the list built by extending with each part in turn
RECURSIVE Concat(_)
Concat(parts) ==
    IF parts = <<>> THEN <<>> ELSE Head(parts) \o Concat(Tail(parts))

\* sep.join(parts)
RECURSIVE Join(_, _)
Join(sep, parts) ==
    IF parts = <<>> THEN <<>>
    ELSE IF Len(parts) = 1 THEN parts[1]
    ELSE parts[1] \o sep \o Join(sep, Tail(parts))

(***************************************************************************)
(* Exact arithmetic for sum(font_sizes) / len(font_sizes)                  *)
(***************************************************************************)
RECURSIVE GCD(_, _)
GCD(a, b) == IF b = 0 THEN a ELSE GCD(b, a % b)

Rat(n, d) == LET g == GCD(n, d) IN
    IF g = 0 THEN [num |-> 0, den |-> 1] ELSE [num |-> n \div g, den |-> d \div g]
\* r >= k
RatGE(r, k) == r.num >= k * r.den

RECURSIVE SeqSum(_)
SeqSum(s) == IF s = <<>> THEN 0 ELSE Head(s) + SeqSum(Tail(s))

\* flag & 2**bit
HasBit(flag, bit) == (flag \div (2 ^ bit)) % 2 = 1

(***************************************************************************)
(* EnhancedPDFExtractor.__init__                                           *)
(***************************************************************************)
header_font_sizes == [h1 |-> 16, h2 |-> 14, h3 |-> 12]

(***************************************************************************)
(* _process_text_block                                                     *)
(*   block = [has_lines, lines, bbox]; a line is [spans |-> <<span>>];     *)
(*   a span is [text, size, flags].                                        *)
(***************************************************************************)
\* line_text: the concatenation of the line's span texts
LineText(line) == Concat([i \in 1..Len(line.spans) |-> line.spans[i].text])

\* text_content after the loop over block['lines'], started from acc
RECURSIVE TextContent(_, _)
TextContent(lines, acc) ==
    IF lines = <<>> THEN acc
    ELSE LET line_text == LineText(Head(lines))
             added == acc \o line_text
             next == IF Strip(line_text) # <<>>
                     THEN (IF added[Len(added)] = "\n" THEN added
                           ELSE Append(added, "\n"))
                     ELSE acc
         IN TextContent(Tail(lines), next)

\* mutant: the size-only alternative of the header test is lost
IsHeader_BoldOnly(avg_font_size, is_bold) ==
    RatGE(avg_font_size, header_font_sizes.h3) /\ is_bold

IsHeader(avg_font_size, is_bold) ==
    /\ RatGE(avg_font_size, header_font_sizes.h3)
    /\ (is_bold \/ RatGE(avg_font_size, header_font_sizes.h1))

HeaderLevel(is_header, avg_font_size) ==
    IF is_header
    THEN IF RatGE(avg_font_size, header_font_sizes.h1) THEN 1
         ELSE IF RatGE(avg_font_size, header_font_sizes.h2) THEN 2
         ELSE 3
    ELSE 0

ProcessTextBlock(block, page_num, page_height) ==
    LET spans == Concat([i \in 1..Len(block.lines) |-> block.lines[i].spans])
        font_sizes == [i \in 1..Len(spans) |-> spans[i].size]
        font_flags == [i \in 1..Len(spans) |-> spans[i].flags]
        text_content == TextContent(block.lines, <<>>)
        avg_font_size == IF font_sizes # <<>>
                         THEN Rat(SeqSum(font_sizes), Len(font_sizes))
                         ELSE Rat(0, 1)
        is_bold == \E i \in 1..Len(font_flags) : HasBit(font_flags[i], 4)
        is_italic == \E i \in 1..Len(font_flags) : HasBit(font_flags[i], 1)
        bbox == block.bbox
        y_position == bbox[2]
        is_header == IsHeader(avg_font_size, is_bold)
    IN [text |-> Strip(text_content),
        page_number |-> page_num + 1,
        bbox |-> bbox,
        font_size |-> avg_font_size,
        is_bold |-> is_bold,
        is_italic |-> is_italic,
        is_header |-> is_header,
        header_level |-> HeaderLevel(is_header, avg_font_size),
        \* y_position > page_height * 0.9
        is_footer |-> 10 * y_position > 9 * page_height,
        \* y_position < page_height * 0.1
        is_page_header |-> 10 * y_position < page_height,
        \* y_position > page_height * 0.8 and avg_font_size < 10
        is_footnote |-> 10 * y_position > 8 * page_height
                            /\ ~RatGE(avg_font_size, 10),
        y_position |-> y_position]

(***************************************************************************)
(* _convert_table_to_markdown                                              *)
(*   table_data is a sequence of rows, a row a sequence of cells, a cell a *)
(*   string or None.                                                       *)
(***************************************************************************)
\* "| " + " | ".join(str(cell or "") for cell in row) + " |"
RowLine(row) ==
    <<"|", " ">>
        \o Join(<<" ", "|", " ">>,
                [i \in 1..Len(row) |-> IF row[i] = PyNone THEN <<>> ELSE row[i]])
        \o <<" ", "|">>

ConvertTableToMarkdown(table_data) ==
    IF table_data = <<>> THEN <<>>
    ELSE LET header == table_data[1]
             markdown_lines ==
                 <<RowLine(header),
                   <<"|", " ">>
                       \o Join(<<" ", "|", " ">>,
                               [i \in 1..Len(header) |-> <<"-", "-", "-">>])
                       \o <<" ", "|">>>>
                 \o [i \in 1..(Len(table_data) - 1) |-> RowLine(table_data[i + 1])]
         IN Join(<<"\n">>, markdown_lines)

(***************************************************************************)
(* _extract_tables_alternative                                             *)
(*   page = [height, width, dict_raises, blocks, get_text, find_tables,    *)
(*   images]                                                               *)
(***************************************************************************)
\* re.split(r'\s{2,}|\t', s): at each position the first alternative that
\* matches is taken, \s{2,} greedily; cur is the piece being read, out the
\* pieces before it
RECURSIVE RegexSplit(_, _, _)
RegexSplit(s, cur, out) ==
    IF s = <<>> THEN Append(out, cur)
    ELSE IF Len(s) >= 2 /\ s[1] \in Whitespace /\ s[2] \in Whitespace
         THEN RegexSplit(LStrip(s), <<>>, Append(out, cur))
    ELSE IF s[1] = "\t"
         THEN RegexSplit(Tail(s), <<>>, Append(out, cur))
    ELSE RegexSplit(Tail(s), Append(cur, s[1]), out)

\* the rows one line appends to potential_table_rows: none or one
LineRows(line) ==
    LET line_text == Strip(LineText(line))
        pieces == RegexSplit(line_text, <<>>, <<>>)
        cells == SelectSeq([i \in 1..Len(pieces) |-> Strip(pieces[i])],
                           LAMBDA cell : cell # <<>>)
    IN IF /\ line_text # <<>>
          /\ \/ \E i \in 1..(Len(line_text) - 1) :
                   line_text[i] = " " /\ line_text[i + 1] = " "
             \/ \E i \in 1..Len(line_text) : line_text[i] = "\t"
       THEN (IF Len(cells) >= 2 THEN <<cells>> ELSE <<>>)
       ELSE <<>>

\* potential_table_rows after the loop over text_dict['blocks']
PotentialTableRows(blocks) ==
    Concat([b \in 1..Len(blocks) |->
              IF blocks[b].has_lines
              THEN Concat([i \in 1..Len(blocks[b].lines) |->
                              LineRows(blocks[b].lines[i])])
              ELSE <<>>])

\* mutant: a single candidate row is already made a table
ExtractTablesAlternative_OneRow(page, page_num) ==
    IF page.dict_raises THEN Raise
    ELSE LET potential_table_rows == PotentialTableRows(page.blocks)
         IN Return(IF Len(potential_table_rows) >= 1
                   THEN <<[table_number |-> 1,
                           page_number |-> page_num + 1,
                           data |-> potential_table_rows,
                           markdown |-> ConvertTableToMarkdown(potential_table_rows),
                           bbox |-> <<0, 0, page.width, page.height>>]>>
                   ELSE <<>>)

\* _extract_tables_alternative: Raise when page.get_text("dict") raises
ExtractTablesAlternative(page, page_num) ==
    IF page.dict_raises THEN Raise
    ELSE LET potential_table_rows == PotentialTableRows(page.blocks)
         IN Return(IF Len(potential_table_rows) >= 2
                   THEN <<[table_number |-> 1,
                           page_number |-> page_num + 1,
                           data |-> potential_table_rows,
                           markdown |-> ConvertTableToMarkdown(potential_table_rows),
                           bbox |-> <<0, 0, page.width, page.height>>]>>
                   ELSE <<>>)

(***************************************************************************)
(* _extract_tables                                                         *)
(*   page.find_tables is the outcome of page.find_tables(): Raise, or the  *)
(*   detected tables, each [extract, bbox] with extract the outcome of     *)
(*   table.extract().  An empty table_data stands for [] and for None.     *)
(***************************************************************************)
\* the for loop over page_tables from index i on: the tables appended and
\* whether the loop was left by an exception
RECURSIVE NativeLoop(_, _, _, _)
NativeLoop(page_tables, i, page_num, tables) ==
    IF i > Len(page_tables) THEN [tables |-> tables, raised |-> FALSE]
    ELSE LET table == page_tables[i] IN
         IF table.extract.raised THEN [tables |-> tables, raised |-> TRUE]
         ELSE LET table_data == table.extract.value IN
              NativeLoop(page_tables, i + 1, page_num,
                  IF table_data # <<>>
                  THEN Append(tables, [table_number |-> i,
                                       page_number |-> page_num + 1,
                                       data |-> table_data,
                                       markdown |-> ConvertTableToMarkdown(table_data),
                                       bbox |-> table.bbox])
                  ELSE tables)

\* mutant: the fallback is also tried when native detection finds nothing
ExtractTablesRun_FallbackOnEmpty(page, page_num) ==
    LET native == IF page.find_tables.raised
                  THEN [tables |-> <<>>, raised |-> TRUE]
                  ELSE NativeLoop(page.find_tables.value, 1, page_num, <<>>)
        alt == ExtractTablesAlternative(page, page_num)
    IN IF ~native.raised /\ native.tables # <<>>
       THEN [tables |-> native.tables, n_native |-> Len(native.tables),
             alt_called |-> FALSE, alt_raised |-> FALSE]
       ELSE [tables |-> native.tables \o (IF alt.raised THEN <<>> ELSE alt.value),
             n_native |-> Len(native.tables),
             alt_called |-> TRUE, alt_raised |-> alt.raised]

\* mutant: an exception of the fallback is not caught
ExtractTablesRun_FallbackUncaught(page, page_num) ==
    LET native == IF page.find_tables.raised
                  THEN [tables |-> <<>>, raised |-> TRUE]
                  ELSE NativeLoop(page.find_tables.value, 1, page_num, <<>>)
        alt == ExtractTablesAlternative(page, page_num)
    IN IF ~native.raised
       THEN [tables |-> native.tables, n_native |-> Len(native.tables),
             alt_called |-> FALSE, alt_raised |-> FALSE]
       ELSE IF alt.raised THEN Raise
       ELSE [tables |-> native.tables \o alt.value,
             n_native |-> Len(native.tables),
             alt_called |-> TRUE, alt_raised |-> FALSE]

\* mutant: table_number is the position in the list returned
ExtractTablesRun_Renumbered(page, page_num) ==
    LET native == IF page.find_tables.raised
                  THEN [tables |-> <<>>, raised |-> TRUE]
                  ELSE NativeLoop(page.find_tables.value, 1, page_num, <<>>)
        alt == ExtractTablesAlternative(page, page_num)
        tables == native.tables
                     \o (IF ~native.raised \/ alt.raised THEN <<>> ELSE alt.value)
    IN [tables |-> [k \in 1..Len(tables) |-> [tables[k] EXCEPT !.table_number = k]],
        n_native |-> Len(native.tables),
        alt_called |-> native.raised,
        alt_raised |-> native.raised /\ alt.raised]

\* _extract_tables: the list it returns (tables), with what the run did:
\* n_native, the number of tables the try block had appended; alt_called,
\* whether _extract_tables_alternative was invoked; alt_raised, whether that
\* call raised (and was caught)
ExtractTablesRun(page, page_num) ==
    LET native == IF page.find_tables.raised
                  THEN [tables |-> <<>>, raised |-> TRUE]
                  ELSE NativeLoop(page.find_tables.value, 1, page_num, <<>>)
        alt == ExtractTablesAlternative(page, page_num)
    IN IF ~native.raised
       THEN [tables |-> native.tables, n_native |-> Len(native.tables),
             alt_called |-> FALSE, alt_raised |-> FALSE]
       ELSE [tables |-> native.tables \o (IF alt.raised THEN <<>> ELSE alt.value),
             n_native |-> Len(native.tables),
             alt_called |-> TRUE, alt_raised |-> alt.raised]

(***************************************************************************)
(* _extract_page_images                                                    *)
(*   page.images is page.get_images() with, for each image, what the       *)
(*   environment does with it: pixmap, the outcome of fitz.Pixmap(...),    *)
(*   Raise or [n, alpha, width, height]; save_raises, whether pix.save     *)
(*   raises; ocr, the outcome of pytesseract.image_to_string on the file.  *)
(***************************************************************************)
\* f"page_{page_num + 1}_image_{i + 1}.png" for the image at position i (from 1)
ImageFilename(page_num, i) == <<page_num + 1, i>>

\* the for loop over image_list: an image is retained if its pixmap is made,
\* is GRAY or RGB, and is saved
ExtractPageImages(page, page_num) ==
    Concat([i \in 1..Len(page.images) |->
              LET img == page.images[i] IN
              IF img.pixmap.raised THEN <<>>
              ELSE LET pix == img.pixmap.value IN
                   IF pix.n - pix.alpha < 4 /\ ~img.save_raises
                   THEN <<[image_number |-> i,
                           page_number |-> page_num + 1,
                           filename |-> ImageFilename(page_num, i),
                           path |-> <<"temp_dir", ImageFilename(page_num, i)>>,
                           width |-> pix.width,
                           height |-> pix.height]>>
                   ELSE <<>>])

(***************************************************************************)
(* _process_images_with_ocr                                                *)
(*   ocr[k] is the outcome of Image.open and pytesseract.image_to_string   *)
(*   on the file of image number k: Raise or the recognised text.          *)
(***************************************************************************)
\* what one image appends to ocr_results: nothing or one entry
OcrEntry(img_info, page_num, ocr) ==
    LET text == ocr[img_info.image_number] IN
    IF ~text.raised /\ Strip(text.value) # <<>>
    THEN <<[image_number |-> img_info.image_number,
            page_number |-> page_num + 1,
            filename |-> img_info.filename,
            extracted_text |-> Strip(text.value),
            image_info |-> img_info]>>
    ELSE <<>>

\* mutant: an exception of OCR leaves the loop instead of the iteration
ProcessImagesWithOcr_StopAtRaise(images, page_num, ocr, ocr_available) ==
    IF ~ocr_available THEN <<>>
    ELSE Concat([k \in 1..Len(images) |->
                   IF \E j \in 1..k : ocr[images[j].image_number].raised
                   THEN <<>>
                   ELSE OcrEntry(images[k], page_num, ocr)])

\* _process_images_with_ocr: the try/except is inside the loop, so every
\* image is processed and the list is always returned
ProcessImagesWithOcr(images, page_num, ocr, ocr_available) ==
    IF ~ocr_available THEN <<>>
    ELSE Concat([k \in 1..Len(images) |-> OcrEntry(images[k], page_num, ocr)])

(***************************************************************************)
(* _extract_page_comprehensive                                             *)
(***************************************************************************)
\* mutant: the page record carries the 0-based index
NewPageInfo_ZeroBased(page_num) ==
    [page_number |-> page_num,
     text_blocks |-> <<>>,
     headers |-> <<>>,
     tables |-> <<>>,
     images |-> <<>>,
     images_with_text |-> <<>>,
     footnotes |-> <<>>,
     page_headers |-> <<>>,
     page_footers |-> <<>>,
     structured_content |-> <<>>,
     raw_text |-> <<>>]

\* page_info as initialised for page page_num
NewPageInfo(page_num) ==
    [page_number |-> page_num + 1,
     text_blocks |-> <<>>,
     headers |-> <<>>,
     tables |-> <<>>,
     images |-> <<>>,
     images_with_text |-> <<>>,
     footnotes |-> <<>>,
     page_headers |-> <<>>,
     page_footers |-> <<>>,
     structured_content |-> <<>>,
     raw_text |-> <<>>]

\* mutant: the footer test comes before the header test
RoleList_FooterFirst(block_info) ==
    IF block_info.is_footer THEN "page_footers"
    ELSE IF block_info.is_header THEN "headers"
    ELSE IF block_info.is_page_header THEN "page_headers"
    ELSE IF block_info.is_footnote THEN "footnotes"
    ELSE "none"

\* mutant: the footnote test comes before the footer test
RoleList_FootnoteFirst(block_info) ==
    IF block_info.is_header THEN "headers"
    ELSE IF block_info.is_footnote THEN "footnotes"
    ELSE IF block_info.is_footer THEN "page_footers"
    ELSE IF block_info.is_page_header THEN "page_headers"
    ELSE "none"

\* "Classify content": the list the if/elif chain appends the block to
RoleList(block_info) ==
    IF block_info.is_header THEN "headers"
    ELSE IF block_info.is_footer THEN "page_footers"
    ELSE IF block_info.is_page_header THEN "page_headers"
    ELSE IF block_info.is_footnote THEN "footnotes"
    ELSE "none"

\* the body of "if block_info['text'].strip()"
AddBlock(page_info, block_info) ==
    LET role == RoleList(block_info) IN
    [page_info EXCEPT
        !.text_blocks = Append(@, block_info),
        !.raw_text = @ \o block_info.text \o <<"\n">>,
        !.headers = IF role = "headers" THEN Append(@, block_info) ELSE @,
        !.page_footers = IF role = "page_footers" THEN Append(@, block_info) ELSE @,
        !.page_headers = IF role = "page_headers" THEN Append(@, block_info) ELSE @,
        !.footnotes = IF role = "footnotes" THEN Append(@, block_info) ELSE @,
        !.structured_content = Append(@, block_info)]

\* mutant: a text block is added whether or not it has text
RECURSIVE BlockLoop_KeepsEmpty(_, _, _, _)
BlockLoop_KeepsEmpty(blocks, page_num, page_height, page_info) ==
    IF blocks = <<>> THEN Return(page_info)
    ELSE LET block == Head(blocks) IN
         IF ~block.has_lines
         THEN BlockLoop_KeepsEmpty(Tail(blocks), page_num, page_height, page_info)
         ELSE IF block.bbox = <<>> THEN Raise
         ELSE BlockLoop_KeepsEmpty(Tail(blocks), page_num, page_height,
                  AddBlock(page_info,
                           ProcessTextBlock(block, page_num, page_height)))

\* the for loop over blocks['blocks']: Raise, or page_info after the loop.  A
\* block dictionary that has 'lines' but no 'bbox' (bbox = <<>>) makes
\* _process_text_block raise KeyError
RECURSIVE BlockLoop(_, _, _, _)
BlockLoop(blocks, page_num, page_height, page_info) ==
    IF blocks = <<>> THEN Return(page_info)
    ELSE LET block == Head(blocks) IN
         IF ~block.has_lines
         THEN BlockLoop(Tail(blocks), page_num, page_height, page_info)
         ELSE IF block.bbox = <<>> THEN Raise
         ELSE LET block_info == ProcessTextBlock(block, page_num, page_height) IN
              BlockLoop(Tail(blocks), page_num, page_height,
                  IF Strip(block_info.text) # <<>>
                  THEN AddBlock(page_info, block_info)
                  ELSE page_info)

\* mutant: the unstructured text is added whenever it is not blank
AddFallbackText_NotBlank(page, page_num, page_info) ==
    IF page.get_text.raised THEN page_info
    ELSE LET fallback_text == page.get_text.value IN
         IF Len(Strip(fallback_text)) > 0
         THEN LET fallback_block ==
                      [text |-> fallback_text,
                       page_number |-> page_num + 1,
                       bbox |-> <<0, 0, page.width, page.height>>,
                       font_size |-> Rat(12, 1),
                       is_bold |-> FALSE,
                       is_italic |-> FALSE,
                       is_header |-> FALSE,
                       header_level |-> 0,
                       is_footer |-> FALSE,
                       is_page_header |-> FALSE,
                       is_footnote |-> FALSE,
                       y_position |-> 0]
              IN [page_info EXCEPT
                     !.text_blocks = Append(@, fallback_block),
                     !.structured_content = Append(@, fallback_block)]
         ELSE page_info

\* the try block "alternative text extraction methods"
AddFallbackText(page, page_num, page_info) ==
    IF page.get_text.raised THEN page_info
    ELSE LET fallback_text == page.get_text.value IN
         IF Len(Strip(fallback_text)) > Len(Strip(page_info.raw_text))
         THEN LET fallback_block ==
                      [text |-> fallback_text,
                       page_number |-> page_num + 1,
                       bbox |-> <<0, 0, page.width, page.height>>,
                       font_size |-> Rat(12, 1),
                       is_bold |-> FALSE,
                       is_italic |-> FALSE,
                       is_header |-> FALSE,
                       header_level |-> 0,
                       is_footer |-> FALSE,
                       is_page_header |-> FALSE,
                       is_footnote |-> FALSE,
                       y_position |-> 0]
              IN [page_info EXCEPT
                     !.text_blocks = Append(@, fallback_block),
                     !.structured_content = Append(@, fallback_block)]
         ELSE page_info

\* _extract_page_comprehensive: Raise, or the page_info it returns
ExtractPageComprehensive(page, page_num, ocr_available) ==
    IF page.dict_raises THEN Raise
    ELSE LET looped == BlockLoop(page.blocks, page_num, page.height,
                                 NewPageInfo(page_num))
         IN IF looped.raised THEN Raise
            ELSE LET with_text == AddFallbackText(page, page_num, looped.value)
                     images == ExtractPageImages(page, page_num)
                     ocr == [i \in 1..Len(page.images) |-> page.images[i].ocr]
                 IN Return([with_text EXCEPT
                       !.tables = ExtractTablesRun(page, page_num).tables,
                       !.images = images,
                       !.images_with_text =
                           IF ocr_available
                           THEN ProcessImagesWithOcr(images, page_num, ocr, TRUE)
                           ELSE @])

(***************************************************************************)
(* _extract_pdf_metadata                                                   *)
(*   doc.metadata maps each key to Absent (the dictionary lacks the key),  *)
(*   PyNone or a string.  pdf_path is [name, st_size, st_mtime,            *)
(*   stat_raises], the file name and the outcome of pdf_path.stat().       *)
(*   A time stamp in ISO format is the pair <<"isoformat", time>>.         *)
(***************************************************************************)
Absent == <<"absent">>

\* metadata.get(key, '')
MetadataGet(metadata, key) == IF metadata[key] = Absent THEN <<>> ELSE metadata[key]

ExtractPdfMetadata(metadata, pdf_path, total_pages) ==
    IF pdf_path.stat_raises THEN Raise
    ELSE Return([file_name |-> pdf_path.name,
                 file_size |-> pdf_path.st_size,
                 file_modified |-> <<"isoformat", pdf_path.st_mtime>>,
                 title |-> MetadataGet(metadata, "title"),
                 author |-> MetadataGet(metadata, "author"),
                 subject |-> MetadataGet(metadata, "subject"),
                 keywords |-> MetadataGet(metadata, "keywords"),
                 creator |-> MetadataGet(metadata, "creator"),
                 producer |-> MetadataGet(metadata, "producer"),
                 creation_date |-> MetadataGet(metadata, "creationDate"),
                 modification_date |-> MetadataGet(metadata, "modDate"),
                 total_pages |-> total_pages,
                 extraction_timestamp |-> <<"isoformat", "now">>])

(***************************************************************************)
(* _generate_markdown                                                      *)
(*   markdown_lines is a sequence of strings; an element may itself hold   *)
(*   newline characters (a table's Markdown, an OCR text).                 *)
(***************************************************************************)
\* str(n) of an integer n >= 0, as in f"{n}"
RECURSIVE IntStr(_)
IntStr(n) ==
    LET digit == <<"0", "1", "2", "3", "4", "5", "6", "7", "8", "9">>[(n % 10) + 1]
    IN IF n < 10 THEN <<digit>> ELSE Append(IntStr(n \div 10), digit)

\* f"{n:,}": groups of three digits separated by commas
RECURSIVE GroupedStr(_)
GroupedStr(n) ==
    IF n < 1000 THEN IntStr(n)
    ELSE GroupedStr(n \div 1000) \o <<",">> \o Tail(IntStr(1000 + (n % 1000)))

\* s.replace(old, new) for a non-empty old
RECURSIVE Replace(_, _, _)
Replace(s, old, new) ==
    IF s = <<>> THEN <<>>
    ELSE IF Len(s) >= Len(old) /\ SubSeq(s, 1, Len(old)) = old
         THEN new \o Replace(SubSeq(s, Len(old) + 1, Len(s)), old, new)
         ELSE <<Head(s)>> \o Replace(Tail(s), old, new)

\* re.sub(r'\s+', ' ', text)
RECURSIVE NormalizeWhitespace(_)
NormalizeWhitespace(text) ==
    IF text = <<>> THEN <<>>
    ELSE IF Head(text) \in Whitespace
         THEN <<" ">> \o NormalizeWhitespace(LStrip(text))
         ELSE <<Head(text)>> \o NormalizeWhitespace(Tail(text))

\* the line of an optional metadata field: "if metadata.get(...)"
OptionalLine(label, value) ==
    IF value # PyNone /\ value # <<>> THEN <<label \o value>> ELSE <<>>

\* the lines up to and including the rule after "Document Information"
MetadataLines(metadata) ==
    LET stripped == Strip(metadata.title)
        \* metadata['file_name'].replace('.pdf', '')
        title == IF stripped # <<>> THEN stripped
                 ELSE Replace(metadata.file_name, <<".", "p", "d", "f">>, <<>>)
    IN <<<<"#", " ">> \o title,
         <<>>,
         \* "## Document Information"
         <<"#", "#", " ", "D", "o", "c", "u", "m", "e", "n", "t", " ", "I",
           "n", "f", "o", "r", "m", "a", "t", "i", "o", "n">>,
         <<>>,
         \* "- **File:** ", "- **Pages:** ", "- **File Size:** ", " bytes"
         <<"-", " ", "*", "*", "F", "i", "l", "e", ":", "*", "*", " ">> \o metadata.file_name,
         <<"-", " ", "*", "*", "P", "a", "g", "e", "s", ":", "*", "*", " ">>
             \o IntStr(metadata.total_pages),
         <<"-", " ", "*", "*", "F", "i", "l", "e", " ", "S", "i", "z", "e",
           ":", "*", "*", " ">>
             \o GroupedStr(metadata.file_size) \o <<" ", "b", "y", "t", "e",
                                                    "s">>>>
       \* "- **Author:** "
       \o OptionalLine(<<"-", " ", "*", "*", "A", "u", "t", "h", "o", "r",
                         ":", "*", "*", " ">>, metadata.author)
       \* "- **Creator:** "
       \o OptionalLine(<<"-", " ", "*", "*", "C", "r", "e", "a", "t", "o",
                         "r", ":", "*", "*", " ">>, metadata.creator)
       \* "- **Producer:** "
       \o OptionalLine(<<"-", " ", "*", "*", "P", "r", "o", "d", "u", "c",
                         "e", "r", ":", "*", "*", " ">>, metadata.producer)
       \* "- **Created:** "
       \o OptionalLine(<<"-", " ", "*", "*", "C", "r", "e", "a", "t", "e",
                         "d", ":", "*", "*", " ">>, metadata.creation_date)
       \* "- **Modified:** "
       \o OptionalLine(<<"-", " ", "*", "*", "M", "o", "d", "i", "f", "i",
                         "e", "d", ":", "*", "*", " ">>, metadata.modification_date)
       \* "- **Subject:** "
       \o OptionalLine(<<"-", " ", "*", "*", "S", "u", "b", "j", "e", "c",
                         "t", ":", "*", "*", " ">>, metadata.subject)
       \* "- **Keywords:** "
       \o OptionalLine(<<"-", " ", "*", "*", "K", "e", "y", "w", "o", "r",
                         "d", "s", ":", "*", "*", " ">>, metadata.keywords)
       \o <<<<>>, <<"-", "-", "-">>, <<>>>>

\* "Process headers with proper hierarchy": "#" * (level + 2), the text
HeaderLines(headers) ==
    Concat([i \in 1..Len(headers) |->
              LET header == headers[i]
                  level == IF header.header_level < 3 THEN header.header_level ELSE 3
              IN IF Strip(header.text) # <<>>
                 THEN <<[k \in 1..(level + 2) |-> "#"] \o <<" ">> \o Strip(header.text),
                        <<>>>>
                 ELSE <<>>])

\* "Add regular content paragraphs"
ParagraphLines(regular_content) ==
    Concat([i \in 1..Len(regular_content) |->
              LET text == Strip(regular_content[i].text)
              IN IF text # <<>> /\ Len(text) > 10
                 THEN <<NormalizeWhitespace(text), <<>>>>
                 ELSE <<>>])

\* "Add tables with better formatting": "### Table N", the table's Markdown
TableLines(tables) ==
    Concat([i \in 1..Len(tables) |->
              IF Strip(tables[i].markdown) # <<>>
              THEN <<<<"#", "#", "#", " ", "T", "a", "b", "l", "e", " ">>
                         \o IntStr(tables[i].table_number),
                     <<>>, tables[i].markdown, <<>>>>
              ELSE <<>>])

\* "Add images with OCR text": "### [Figure N: Extracted Text]", the text
FigureLines(images_with_text) ==
    Concat([i \in 1..Len(images_with_text) |->
              LET img_ocr == images_with_text[i]
              IN IF Strip(img_ocr.extracted_text) # <<>>
                 THEN <<<<"#", "#", "#", " ", "[", "F", "i", "g", "u", "r",
                          "e", " ">>
                            \o IntStr(img_ocr.image_number)
                            \o <<":", " ", "E", "x", "t", "r", "a", "c", "t",
                                 "e", "d", " ", "T", "e", "x", "t", "]">>,
                        <<>>, Strip(img_ocr.extracted_text), <<>>>>
                 ELSE <<>>])

\* "Add footnotes if present": "### Footnotes" and a bullet "- " per footnote
FootnoteLines(footnotes) ==
    IF footnotes # <<>>
    THEN <<<<"#", "#", "#", " ", "F", "o", "o", "t", "n", "o", "t", "e", "s">>, <<>>>>
         \o Concat([i \in 1..Len(footnotes) |->
                      IF Strip(footnotes[i].text) # <<>>
                      THEN <<<<"-", " ">> \o Strip(footnotes[i].text)>>
                      ELSE <<>>])
         \o <<<<>>>>
    ELSE <<>>

\* the section of the page headers or page footers with "useful information"
UsefulLines(heading, blocks) ==
    LET useful == SelectSeq(blocks, LAMBDA block :
                      Strip(block.text) # <<>> /\ Len(Strip(block.text)) > 5)
    IN IF useful # <<>>
       THEN <<heading, <<>>>>
            \o [i \in 1..Len(useful) |-> Strip(useful[i].text)]
            \o <<<<>>>>
       ELSE <<>>

\* the lines one iteration of "for page_info in result['pages']" appends
PageLines(page_info) ==
    LET headers == SelectSeq(page_info.structured_content,
                             LAMBDA block : block.is_header)
        regular_content ==
            SelectSeq(page_info.structured_content, LAMBDA block :
                /\ ~block.is_header
                /\ ~block.is_footer
                /\ ~block.is_page_header
                /\ ~block.is_footnote
                /\ Strip(block.text) # <<>>)
    IN (IF \/ headers # <<>>
           \/ regular_content # <<>>
           \/ page_info.tables # <<>>
           \/ page_info.images_with_text # <<>>
        \* "## Page N"
        THEN <<<<"#", "#", " ", "P", "a", "g", "e", " ">> \o IntStr(page_info.page_number),
               <<>>>>
        ELSE <<>>)
       \o HeaderLines(headers)
       \o ParagraphLines(regular_content)
       \o TableLines(page_info.tables)
       \o FigureLines(page_info.images_with_text)
       \o FootnoteLines(page_info.footnotes)
       \* "### Page Header"
       \o UsefulLines(<<"#", "#", "#", " ", "P", "a", "g", "e", " ", "H",
                        "e", "a", "d", "e", "r">>,
                      page_info.page_headers)
       \* "### Page Footer"
       \o UsefulLines(<<"#", "#", "#", " ", "P", "a", "g", "e", " ", "F",
                        "o", "o", "t", "e", "r">>,
                      page_info.page_footers)

\* "Remove excessive empty lines"
RECURSIVE RemoveExcessiveEmptyLines(_, _)
RemoveExcessiveEmptyLines(final_content, prev_empty) ==
    IF final_content = <<>> THEN <<>>
    ELSE LET line == Head(final_content) IN
         IF Strip(line) = <<>>
         THEN (IF ~prev_empty THEN <<line>> ELSE <<>>)
                 \o RemoveExcessiveEmptyLines(Tail(final_content), TRUE)
         ELSE <<line>> \o RemoveExcessiveEmptyLines(Tail(final_content), FALSE)

\* mutant: the page heading is appended for every page
GenerateMarkdown_HeadingEveryPage(res) ==
    IF res.metadata.title = PyNone THEN Raise
    ELSE LET markdown_lines ==
                 MetadataLines(res.metadata)
                    \o Concat([i \in 1..Len(res.pages) |->
                          <<<<"#", "#", " ", "P", "a", "g", "e", " ">>
                                \o IntStr(res.pages[i].page_number),
                            <<>>>>
                          \o PageLines(res.pages[i])])
         IN Return(Join(<<"\n">>, RemoveExcessiveEmptyLines(markdown_lines, FALSE)))

\* _generate_markdown: Raise when the title is None (None has no strip), or
\* the string it returns
GenerateMarkdown(res) ==
    IF res.metadata.title = PyNone THEN Raise
    ELSE LET markdown_lines ==
                 MetadataLines(res.metadata)
                    \o Concat([i \in 1..Len(res.pages) |-> PageLines(res.pages[i])])
         IN Return(Join(<<"\n">>, RemoveExcessiveEmptyLines(markdown_lines, FALSE)))

(***************************************************************************)
(* extract_comprehensive                                                   *)
(***************************************************************************)
\* "Initialize result structure" for a document of n pages
NewResult(metadata, n) ==
    [metadata |-> metadata,
     pages |-> <<>>,
     headers |-> <<>>,
     tables |-> <<>>,
     images_with_text |-> <<>>,
     footnotes |-> <<>>,
     page_headers |-> <<>>,
     page_footers |-> <<>>,
     structured_content |-> <<>>,
     markdown_content |-> <<>>,
     extraction_summary |-> [total_pages |-> n,
                             total_text_blocks |-> 0,
                             total_images |-> 0,
                             total_tables |-> 0,
                             ocr_processed_images |-> 0,
                             extraction_time |-> <<"isoformat", "now">>]]

\* mutant: the headers of a page are put in front of those of the earlier pages
Aggregate_HeadersInFront(res, page_info) ==
    [res EXCEPT
        !.pages = Append(@, page_info),
        !.headers = page_info.headers \o @,
        !.tables = @ \o page_info.tables,
        !.images_with_text = @ \o page_info.images_with_text,
        !.footnotes = @ \o page_info.footnotes,
        !.page_headers = @ \o page_info.page_headers,
        !.page_footers = @ \o page_info.page_footers,
        !.structured_content = @ \o page_info.structured_content,
        !.extraction_summary.total_text_blocks = @ + Len(page_info.text_blocks),
        !.extraction_summary.total_images = @ + Len(page_info.images),
        !.extraction_summary.total_tables = @ + Len(page_info.tables),
        !.extraction_summary.ocr_processed_images = @ + Len(page_info.images_with_text)]

\* mutant: the counters of the summary are those of the page just added
Aggregate_SummaryOfLastPage(res, page_info) ==
    [res EXCEPT
        !.pages = Append(@, page_info),
        !.headers = @ \o page_info.headers,
        !.tables = @ \o page_info.tables,
        !.images_with_text = @ \o page_info.images_with_text,
        !.footnotes = @ \o page_info.footnotes,
        !.page_headers = @ \o page_info.page_headers,
        !.page_footers = @ \o page_info.page_footers,
        !.structured_content = @ \o page_info.structured_content,
        !.extraction_summary.total_text_blocks = Len(page_info.text_blocks),
        !.extraction_summary.total_images = Len(page_info.images),
        !.extraction_summary.total_tables = Len(page_info.tables),
        !.extraction_summary.ocr_processed_images = Len(page_info.images_with_text)]

\* the loop body after _extract_page_comprehensive: append, "Aggregate data",
\* "Update summary"
Aggregate(res, page_info) ==
    [res EXCEPT
        !.pages = Append(@, page_info),
        !.headers = @ \o page_info.headers,
        !.tables = @ \o page_info.tables,
        !.images_with_text = @ \o page_info.images_with_text,
        !.footnotes = @ \o page_info.footnotes,
        !.page_headers = @ \o page_info.page_headers,
        !.page_footers = @ \o page_info.page_footers,
        !.structured_content = @ \o page_info.structured_content,
        !.extraction_summary.total_text_blocks = @ + Len(page_info.text_blocks),
        !.extraction_summary.total_images = @ + Len(page_info.images),
        !.extraction_summary.total_tables = @ + Len(page_info.tables),
        !.extraction_summary.ocr_processed_images = @ + Len(page_info.images_with_text)]

\* extract_comprehensive has not been called
IdleDoc ==
    /\ doc = [open |-> FALSE, len |-> 0] /\ result = <<>> /\ dpc = "idle"
    /\ app = [pc |-> "idle"] /\ disk = <<>>

(***************************************************************************)
(* Pages: the fitz.Page a method is given                                  *)
(***************************************************************************)
PageWidth == 60

\* a page without content; the inputs below vary single fields of it
BlankPage ==
    [height |-> 100, width |-> PageWidth,
     dict_raises |-> FALSE,          \* page.get_text("dict") raises
     blocks |-> <<>>,                \* page.get_text("dict")['blocks']
     get_text |-> Return(<<>>),      \* outcome of page.get_text()
     find_tables |-> Return(<<>>),   \* outcome of page.find_tables()
     images |-> <<>>]                \* page.get_images(), with each image's pixmap

\* a text block of one line and one span, with font = <<size, flags>>
StyledBlock(text, font, y) ==
    [has_lines |-> TRUE,
     lines |-> <<[spans |-> <<[text |-> text, size |-> font[1], flags |-> font[2]]>>]>>,
     bbox |-> <<0, y, PageWidth, y + 10>>]

\* a text block with one line per text, each line one span
LinesBlock(texts) ==
    [has_lines |-> TRUE,
     lines |-> [i \in 1..Len(texts) |->
                  [spans |-> <<[text |-> texts[i], size |-> 10, flags |-> 0]>>]],
     bbox |-> <<0, 50, PageWidth, 60>>]

\* a block without 'lines'
ImageBlock == [has_lines |-> FALSE, lines |-> <<>>, bbox |-> <<0, 20, PageWidth, 40>>]

\* "Name    Score" and "Alice   90"
NameScore == <<"N", "a", "m", "e", " ", " ", " ", " ", "S", "c", "o", "r",
               "e">>
Alice90 == <<"A", "l", "i", "c", "e", " ", " ", " ", "9", "0">>

(***************************************************************************)
(* Specification of _process_text_block                                    *)
(***************************************************************************)
MaxSpans == 2

BlockSpans == [text : {<<"a">>}, size : {8, 10, 12, 14, 16}, flags : {0, 2, 16}]
                 \cup {[text |-> <<" ">>, size |-> 12, flags |-> 0]}

\* a text block whose spans are cut into one or two lines after position k
BlockOf(spans, k, y) ==
    [has_lines |-> TRUE,
     lines |-> IF k = Len(spans)
               THEN <<[spans |-> spans]>>
               ELSE <<[spans |-> SubSeq(spans, 1, k)],
                      [spans |-> SubSeq(spans, k + 1, Len(spans))]>>,
     bbox |-> <<0, y, PageWidth, y + 10>>]

InitBlock ==
    /\ \E n \in 0..MaxSpans : \E s \in [1..n -> BlockSpans] :
       \E k \in 0..n : \E y \in {50, 95} :
          call = [fn |-> "_process_text_block", block |-> BlockOf(s, k, y),
                  page_num |-> 0, page_height |-> 100]
    /\ ret = NoRet
    /\ IdleDoc

CallProcessTextBlock ==
    /\ call.fn = "_process_text_block"
    /\ ~ret.done
    /\ ret' = Returned(ProcessTextBlock(call.block, call.page_num, call.page_height))
    /\ UNCHANGED <<call, doc, result, dpc, app, disk>>

SpecBlock == InitBlock /\ [][CallProcessTextBlock]_vars

(***************************************************************************)
(* Specification of _extract_tables                                        *)
(***************************************************************************)
MaxTables == 2

\* a detected table: extract() raises, or returns no rows, a 2x2 matrix or a
\* row with a None cell
TableObjects ==
    [extract : {Raise, Return(<<>>),
                Return(<<<<<<"A">>, <<"B">>>>, <<<<"1">>, <<"2">>>>>>),
                Return(<<<<<<"x">>, PyNone>>>>)},
     bbox : {<<10, 20, 50, 40>>}]

\* block lists of pages for the fallback: no text, one candidate row, two
\* candidate rows (the second line cut into two spans), the Name/Score page
TablePageBlocks ==
    {<<>>,
     <<LinesBlock(<<<<"a", "\t", "b">>, <<"a", " ", "b">>>>)>>,
     <<ImageBlock,
       [has_lines |-> TRUE,
        lines |-> <<[spans |-> <<[text |-> <<"a", " ", " ", "b">>,
                                  size |-> 10, flags |-> 0]>>],
                    [spans |-> <<[text |-> <<"c", " ">>, size |-> 10, flags |-> 0],
                                 [text |-> <<" ", "d">>, size |-> 10, flags |-> 0]>>]>>,
        bbox |-> <<0, 50, PageWidth, 60>>]>>,
     <<LinesBlock(<<NameScore>>), LinesBlock(<<Alice90>>)>>}

InitTables ==
    /\ \E ft \in {Raise} \cup {Return(ts) : ts \in UNION {[1..n -> TableObjects] :
                                                           n \in 0..MaxTables}} :
       \E bs \in TablePageBlocks : \E dr \in BOOLEAN :
          call = [fn |-> "_extract_tables",
                  page |-> [BlankPage EXCEPT !.find_tables = ft, !.blocks = bs,
                                             !.dict_raises = dr],
                  page_num |-> 0]
    /\ ret = NoRet
    /\ IdleDoc

CallExtractTables ==
    /\ call.fn = "_extract_tables"
    /\ ~ret.done
    /\ ret' = Returned(ExtractTablesRun(call.page, call.page_num))
    /\ UNCHANGED <<call, doc, result, dpc, app, disk>>

SpecTables == InitTables /\ [][CallExtractTables]_vars

(***************************************************************************)
(* Specification of _extract_tables_alternative                            *)
(***************************************************************************)
MaxPageChars == 6

\* the characters of a page's text; LineBreak ends a line and is part of none
LineBreak == "/"

\* the lines of a page text: its pieces between the line breaks
RECURSIVE SplitLines(_, _)
SplitLines(text, cur) ==
    IF text = <<>> THEN <<cur>>
    ELSE IF Head(text) = LineBreak THEN <<cur>> \o SplitLines(Tail(text), <<>>)
    ELSE SplitLines(Tail(text), Append(cur, Head(text)))

InitAlt ==
    /\ \/ \E n \in 0..MaxPageChars :
          \E text \in [1..n -> {"a", " ", "\t", Nbsp, LineBreak}] :
          \E first \in {<<>>, <<LinesBlock(<<<<"a", "\t", "a">>>>)>>} :
             call = [fn |-> "_extract_tables_alternative",
                     page |-> [BlankPage EXCEPT
                                 !.blocks = first \o <<LinesBlock(SplitLines(text, <<>>))>>],
                     page_num |-> 0]
       \/ \E bs \in TablePageBlocks : \E dr \in BOOLEAN : \E n \in {0, 1} :
             call = [fn |-> "_extract_tables_alternative",
                     page |-> [BlankPage EXCEPT !.blocks = bs, !.dict_raises = dr],
                     page_num |-> n]
    /\ ret = NoRet
    /\ IdleDoc

CallExtractTablesAlternative ==
    /\ call.fn = "_extract_tables_alternative"
    /\ ~ret.done
    /\ ret' = Returned(ExtractTablesAlternative(call.page, call.page_num))
    /\ UNCHANGED <<call, doc, result, dpc, app, disk>>

SpecAlt == InitAlt /\ [][CallExtractTablesAlternative]_vars

(***************************************************************************)
(* Specification of _convert_table_to_markdown                             *)
(***************************************************************************)
MaxRows == 2
MaxCols == 2

\* a row of each length up to MaxCols, chosen by cells[i][k] for k <= lens[i];
\* cells: a letter, the empty string, None, a text of two lines
InitMarkdown ==
    /\ \/ \E n \in 0..MaxRows : \E lens \in [1..n -> 0..MaxCols] :
          \E cells \in [1..n -> [1..MaxCols ->
                           {<<"A">>, <<>>, PyNone, <<"x", "\n", "y">>}]] :
             /\ \A i \in 1..n : \A k \in 1..MaxCols :
                   k > lens[i] => cells[i][k] = <<"A">>
             /\ call = [fn |-> "_convert_table_to_markdown",
                        table_data |-> [i \in 1..n |-> SubSeq(cells[i], 1, lens[i])]]
       \/ call = [fn |-> "_convert_table_to_markdown",
                  table_data |-> <<<<<<"A">>, <<"B">>>>, <<<<"1">>, <<"2">>>>>>]
    /\ ret = NoRet
    /\ IdleDoc

CallConvertTableToMarkdown ==
    /\ call.fn = "_convert_table_to_markdown"
    /\ ~ret.done
    /\ ret' = Returned(ConvertTableToMarkdown(call.table_data))
    /\ UNCHANGED <<call, doc, result, dpc, app, disk>>

SpecMarkdown == InitMarkdown /\ [][CallConvertTableToMarkdown]_vars

(***************************************************************************)
(* Specification of _process_images_with_ocr                               *)
(***************************************************************************)
MaxImages == 3

\* an image of page.get_images() with what the environment does with it
PageImage(pixmap, save_raises, ocr) ==
    [pixmap |-> pixmap, save_raises |-> save_raises, ocr |-> ocr]

\* fitz.Pixmap of a GRAY image
GrayPixmap == Return([n |-> 1, alpha |-> 0, width |-> 4, height |-> 3])

\* the outcomes of OCR on an image file: an exception, blank text, text
OcrOutcomes ==
    {Raise, Return(<<" ", "\n">>), Return(<<"t">>), Return(<<" ", "t", "\n">>)}

\* images: what _extract_page_images retains of a page with n images, some
\* of which it skips (their pixmap cannot be made)
InitOcr ==
    /\ \E n \in 0..MaxImages : \E kept \in SUBSET (1..n) :
       \E ocr \in [1..n -> OcrOutcomes] : \E avail \in BOOLEAN :
          LET page == [BlankPage EXCEPT !.images =
                          [i \in 1..n |->
                              PageImage(IF i \in kept THEN GrayPixmap ELSE Raise,
                                        FALSE, ocr[i])]]
          IN call = [fn |-> "_process_images_with_ocr",
                     images |-> ExtractPageImages(page, 0),
                     page_num |-> 0, ocr |-> ocr, ocr_available |-> avail]
    /\ ret = NoRet
    /\ IdleDoc

CallProcessImagesWithOcr ==
    /\ call.fn = "_process_images_with_ocr"
    /\ ~ret.done
    /\ ret' = Returned(Return(ProcessImagesWithOcr(call.images, call.page_num,
                                                   call.ocr, call.ocr_available)))
    /\ UNCHANGED <<call, doc, result, dpc, app, disk>>

SpecOcr == InitOcr /\ [][CallProcessImagesWithOcr]_vars

(***************************************************************************)
(* Specification of _extract_page_comprehensive                            *)
(***************************************************************************)
MaxBlocks == 2

\* the blocks of a page of the given height: a one-span block of each font
\* (size and flags) at each y position (in percent of the height, the limits
\* 10, 80 and 90 among them), an image block, a block of blank text
PageBlocks(height) ==
    {StyledBlock(<<"a">>, f, (height * y) \div 100) :
        f \in {<<8, 0>>, <<10, 0>>, <<11, 0>>, <<11, 16>>, <<12, 0>>, <<12, 16>>,
               <<16, 0>>},
        y \in {5, 10, 50, 80, 85, 90, 95}}
        \cup {ImageBlock, LinesBlock(<<<<" ">>>>)}

InitPage ==
    /\ \E h \in {100, 200} : \E n \in 0..MaxBlocks :
       \E bs \in [1..n -> PageBlocks(h)] :
          call = [fn |-> "_extract_page_comprehensive",
                  page |-> [BlankPage EXCEPT !.height = h, !.blocks = bs],
                  page_num |-> 0, ocr_available |-> TRUE]
    /\ ret = NoRet
    /\ IdleDoc

CallExtractPageComprehensive ==
    /\ call.fn = "_extract_page_comprehensive"
    /\ ~ret.done
    /\ ret' = Returned(ExtractPageComprehensive(call.page, call.page_num,
                                                call.ocr_available))
    /\ UNCHANGED <<call, doc, result, dpc, app, disk>>

SpecPage == InitPage /\ [][CallExtractPageComprehensive]_vars

(***************************************************************************)
(* Specification of extract_comprehensive                                  *)
(***************************************************************************)
MaxPages == 2

\* "Body  text<TAB>of page" and "Report"
BodyText == <<"B", "o", "d", "y", " ", " ", "t", "e", "x", "t", "\t", "o",
              "f", " ", "p", "a", "g", "e">>
RunningText == <<"R", "e", "p", "o", "r", "t">>

\* the pages of the documents: a blank page; a page with a block of each role;
\* a page with native tables, body text, images and OCR text; a page whose
\* table detection raises and whose text has two aligned lines; a page whose
\* unstructured text is longer than its blocks; a page with a malformed block
DocPages ==
    {BlankPage,
     [BlankPage EXCEPT
        !.blocks = <<StyledBlock(<<"I", "n", "t", "r", "o">>, <<16, 0>>, 50),
                     StyledBlock(BodyText, <<11, 0>>, 50),
                     StyledBlock(<<"a">>, <<11, 0>>, 50),
                     StyledBlock(<<"1", " ", "n", "o", "t", "e">>, <<8, 0>>, 85),
                     StyledBlock(RunningText, <<11, 0>>, 95),
                     StyledBlock(RunningText, <<11, 0>>, 5),
                     StyledBlock(<<"a">>, <<11, 0>>, 5),
                     StyledBlock(<<"I", "n", "t", "r", "o">>, <<12, 16>>, 95)>>,
        !.get_text = Return(<<"a">>)],
     [BlankPage EXCEPT
        !.blocks = <<StyledBlock(BodyText, <<11, 0>>, 50), ImageBlock>>,
        !.find_tables =
            Return(<<[extract |-> Return(<<<<<<"A">>, <<"B">>>>, <<<<"1">>, <<"2">>>>>>),
                      bbox |-> <<10, 20, 50, 40>>],
                     [extract |-> Return(<<>>), bbox |-> <<10, 50, 50, 60>>],
                     [extract |-> Return(<<<<<<"x", "\n", "\n", "y">>, PyNone>>>>),
                      bbox |-> <<10, 70, 50, 80>>]>>),
        !.images = <<PageImage(GrayPixmap, FALSE, Return(<<"t">>)),
                     PageImage([GrayPixmap EXCEPT !.value.n = 4], FALSE,
                               Return(<<"t">>)),
                     PageImage(GrayPixmap, FALSE, Raise),
                     PageImage(GrayPixmap, FALSE, Return(<<"t", "\n", "\n", "u">>))>>],
     [BlankPage EXCEPT
        !.blocks = <<LinesBlock(<<NameScore>>), LinesBlock(<<Alice90>>)>>,
        !.find_tables = Raise,
        !.images = <<PageImage(Raise, FALSE, Raise),
                     PageImage(GrayPixmap, TRUE, Raise),
                     PageImage(GrayPixmap, FALSE, Return(<<" ">>))>>],
     [BlankPage EXCEPT
        !.blocks = <<StyledBlock(RunningText, <<16, 16>>, 5)>>,
        !.get_text = Return(RunningText \o <<"\n">> \o BodyText)],
     [BlankPage EXCEPT
        !.blocks = <<StyledBlock(BodyText, <<11, 0>>, 50),
                     [has_lines |-> TRUE, lines |-> <<>>, bbox |-> <<>>]>>]}

\* pdf_path: the file name ("a.pdf", "b.pdf.pdf") and what pdf_path.stat()
\* gives
PdfPaths ==
    {[name |-> <<"a", ".", "p", "d", "f">>, st_size |-> 0,
      st_mtime |-> "mtime", stat_raises |-> FALSE],
     [name |-> <<"b", ".", "p", "d", "f", ".", "p", "d", "f">>,
      st_size |-> 1234567, st_mtime |-> "mtime", stat_raises |-> FALSE],
     [name |-> <<"a", ".", "p", "d", "f">>, st_size |-> 0,
      st_mtime |-> "mtime", stat_raises |-> TRUE]}

\* doc.metadata: without any key; with a title and an author; with an empty
\* title and None for the author; with None for the title
DocMetadatas ==
    LET none == [title |-> Absent, author |-> Absent, subject |-> Absent,
                 keywords |-> Absent, creator |-> Absent, producer |-> Absent,
                 creationDate |-> Absent, modDate |-> Absent]
    IN {none,
        [none EXCEPT !.title = <<" ", "T">>, !.author = <<"A">>,
                     !.creationDate = <<"D">>],
        [none EXCEPT !.title = <<>>, !.author = PyNone, !.keywords = <<"k">>],
        [none EXCEPT !.title = PyNone]}

InitDoc ==
    /\ \E avail \in BOOLEAN : \E pdf_path \in PdfPaths :
          call = [fn |-> "extract_comprehensive", pdf_path |-> pdf_path,
                  ocr_available |-> avail]
    /\ ret = NoRet
    /\ IdleDoc

\* fitz.open(pdf_path) and the initialisation of result; an exception of
\* fitz.open or of _extract_pdf_metadata is logged and raised again
OpenDocument ==
    /\ call.fn = "extract_comprehensive"
    /\ dpc = "idle"
    /\ \/ /\ dpc' = "raised"
          /\ ret' = Returned(Raise)
          /\ UNCHANGED <<call, doc, result, app, disk>>
       \/ \E n \in 1..MaxPages : \E doc_metadata \in DocMetadatas :
             LET metadata == ExtractPdfMetadata(doc_metadata, call.pdf_path, n) IN
             /\ doc' = [open |-> TRUE, len |-> n]
             /\ IF metadata.raised
                THEN /\ dpc' = "raised"
                     /\ ret' = Returned(Raise)
                     /\ UNCHANGED <<call, result, app, disk>>
                ELSE /\ result' = NewResult(metadata.value, n)
                     /\ dpc' = "pages"
                     /\ UNCHANGED <<call, ret, app, disk>>

\* one iteration of "for page_num in range(len(doc))"; an exception of
\* _extract_page_comprehensive is logged and raised again
ExtractNextPage ==
    /\ dpc = "pages"
    /\ Len(result.pages) < doc.len
    /\ \E page \in DocPages :
          LET page_num == Len(result.pages)
              page_info == ExtractPageComprehensive(page, page_num, call.ocr_available)
          IN IF page_info.raised
             THEN /\ dpc' = "raised"
                  /\ ret' = Returned(Raise)
                  /\ UNCHANGED <<call, doc, result, app, disk>>
             ELSE /\ result' = Aggregate(result, page_info.value)
                  /\ UNCHANGED <<call, ret, doc, dpc, app, disk>>

\* after the loop: _generate_markdown, doc.close() and return result; an
\* exception of _generate_markdown is logged and raised again
FinishDocument ==
    /\ dpc = "pages"
    /\ Len(result.pages) = doc.len
    /\ LET markdown == GenerateMarkdown(result) IN
       IF markdown.raised
       THEN /\ dpc' = "raised"
            /\ ret' = Returned(Raise)
            /\ UNCHANGED <<call, doc, result, app, disk>>
       ELSE /\ result' = [result EXCEPT !.markdown_content = markdown.value]
            /\ doc' = [doc EXCEPT !.open = FALSE]
            /\ dpc' = "returned"
            /\ ret' = Returned(Return(result'))
            /\ UNCHANGED <<call, app, disk>>

SpecDoc == InitDoc /\ [][OpenDocument \/ ExtractNextPage \/ FinishDocument]_vars

(***************************************************************************)
(* PDFExtractor (src/src/core/extractor.py)                                *)
(*   A PDF file on disk is [name, stem, open_raises, pages] with what its  *)
(*   consumers do with it (analyze_raises, stat_raises, export_raises);    *)
(*   pages holds the outcome of page.get_text() of each page.              *)
(***************************************************************************)
\* extract_text: fitz.open, text += page.get_text() per page, doc.close();
\* an exception is logged and raised again
ExtractText(file) ==
    IF file.open_raises \/ \E k \in 1..Len(file.pages) : file.pages[k].raised
    THEN Raise
    ELSE Return(Concat([k \in 1..Len(file.pages) |-> file.pages[k].value]))

\* the default of the parameter max_images of extract_images
max_images == 10

\* extract_images: the pages are rendered and saved into temp_dir one after
\* the other as <stem>_page_<k>.png; pix.save raises when temp_dir does not
\* exist; any exception is logged and [] is returned.  The value is
\* [value |-> the returned paths, disk |-> the disk afterwards].
ExtractImages(temp_dir, file, d) ==
    LET n == IF Len(file.pages) < max_images THEN Len(file.pages) ELSE max_images
        image_paths == [k \in 1..n |-> <<temp_dir, <<file.stem, "_page_", k, ".png">>>>]
    IN IF file.open_raises \/ (n > 0 /\ temp_dir \notin DOMAIN d)
       THEN [value |-> <<>>, disk |-> d]
       ELSE [value |-> image_paths,
             disk |-> IF n = 0 THEN d
                      ELSE [d EXCEPT ![temp_dir] =
                              @ \cup {image_paths[k][2] : k \in 1..n}]]

(***************************************************************************)
(* Specification of PDFKnowledgeExtractorApp.process_files (src/main.py)   *)
(***************************************************************************)
MaxFiles == 3

\* the scratch directory of the application object (main.py, line 56)
AppTempDir == "pdf_extractor_app"

\* the PDF files of the input lists: a readable file of one page and one of
\* two pages; a file fitz.open fails on; a file whose second page fails; a
\* file the AI analysis fails on; a file whose stat() fails; a file whose
\* export fails
InputFiles ==
    LET good == [name |-> "a.pdf", stem |-> "a", open_raises |-> FALSE,
                 pages |-> <<Return(<<"a">>)>>, analyze_raises |-> FALSE,
                 stat_raises |-> FALSE, export_raises |-> FALSE]
    IN {good,
        [good EXCEPT !.name = "b.pdf", !.stem = "b",
                     !.pages = <<Return(<<"b", "\n">>), Return(<<"c">>)>>],
        [good EXCEPT !.name = "corrupt.pdf", !.stem = "corrupt",
                     !.open_raises = TRUE, !.pages = <<>>],
        [good EXCEPT !.name = "badpage.pdf", !.stem = "badpage",
                     !.pages = <<Return(<<"a">>), Raise>>],
        [good EXCEPT !.name = "noai.pdf", !.stem = "noai", !.analyze_raises = TRUE],
        [good EXCEPT !.name = "nostat.pdf", !.stem = "nostat", !.stat_raises = TRUE],
        [good EXCEPT !.name = "noexport.pdf", !.stem = "noexport",
                     !.export_raises = TRUE]}

\* mutant: a file that fails leaves no record in results
ProcessFile_NoErrorRecord(a, file, d) ==
    LET text == ExtractText(file)
        images == ExtractImages(AppTempDir, file, d)
    IN IF text.raised
       THEN [app |-> [a EXCEPT !.i = @ + 1, !.opened = Append(@, file.name)],
             disk |-> d]
       ELSE [app |-> [a EXCEPT
                !.i = @ + 1,
                !.opened = @ \o <<file.name, file.name>>,
                !.results =
                   IF file.analyze_raises \/ file.stat_raises \/ file.export_raises
                   THEN @
                   ELSE Append(@, [file_path |-> file.name, status |-> "success",
                                   text_length |-> Len(text.value),
                                   image_count |-> Len(images.value)])],
             disk |-> images.disk]

\* one iteration of "for i, file_path in enumerate(file_paths)": the try body
\* (extract, analyze, stat, export, append the 'success' record) and the
\* except branch (append the 'error' record, send_error).  a.opened logs the
\* calls of fitz.open: one of extract_text and, when that returned, one of
\* extract_images.
ProcessFile(a, file, d) ==
    LET text == ExtractText(file)
        images == ExtractImages(AppTempDir, file, d)
    IN IF text.raised
       THEN [app |-> [a EXCEPT
                !.i = @ + 1,
                !.opened = Append(@, file.name),
                !.results = Append(@, [file_path |-> file.name, status |-> "error"])],
             disk |-> d]
       ELSE [app |-> [a EXCEPT
                !.i = @ + 1,
                !.opened = @ \o <<file.name, file.name>>,
                !.results = Append(@,
                   IF file.analyze_raises \/ file.stat_raises \/ file.export_raises
                   THEN [file_path |-> file.name, status |-> "error"]
                   ELSE [file_path |-> file.name, status |-> "success",
                         text_length |-> Len(text.value),
                         image_count |-> Len(images.value)])],
             disk |-> images.disk]

InitFiles ==
    /\ \E n \in 0..MaxFiles : \E fs \in [1..n -> InputFiles] :
       \E mkdir_raises \in BOOLEAN :
          call = [fn |-> "process_files", file_paths |-> fs,
                  mkdir_raises |-> mkdir_raises]
    /\ ret = NoRet
    /\ doc = [open |-> FALSE, len |-> 0] /\ result = <<>> /\ dpc = "idle"
    /\ app = [pc |-> "idle"]
    /\ disk = [dir \in {AppTempDir} |-> {}]

\* results = [], output_dir.mkdir(parents=True, exist_ok=True), formats
StartProcessFiles ==
    /\ call.fn = "process_files"
    /\ app.pc = "idle"
    /\ IF call.mkdir_raises
       THEN /\ app' = [pc |-> "raised"]
            /\ ret' = Returned(Raise)
       ELSE /\ app' = [pc |-> "files", i |-> 0, results |-> <<>>, opened |-> <<>>]
            /\ UNCHANGED ret
    /\ UNCHANGED <<call, doc, result, dpc, disk>>

ProcessNextFile ==
    /\ app.pc = "files"
    /\ app.i < Len(call.file_paths)
    /\ LET next == ProcessFile(app, call.file_paths[app.i + 1], disk)
       IN app' = next.app /\ disk' = next.disk
    /\ UNCHANGED <<call, ret, doc, result, dpc>>

\* after the loop: send_completion and return results
FinishProcessFiles ==
    /\ app.pc = "files"
    /\ app.i = Len(call.file_paths)
    /\ app' = [app EXCEPT !.pc = "returned"]
    /\ ret' = Returned(Return(app.results))
    /\ UNCHANGED <<call, doc, result, dpc, disk>>

SpecFiles ==
    InitFiles /\ [][StartProcessFiles \/ ProcessNextFile \/ FinishProcessFiles]_vars

(***************************************************************************)
(* Specification of the life of a PDFExtractor: construction, extraction   *)
(* calls, cleanup (src/src/core/extractor.py)                              *)
(***************************************************************************)
MaxCalls == 3

\* the directory tempfile.mkdtemp creates for a PDFExtractor
ExtractorTempDir == "pdf_extractor_1"

\* cleanup without its try/except (mutant): a failure of rmtree is raised
Cleanup_NoExcept(temp_dir, d, rmtree_raises, rest) ==
    IF temp_dir \notin DOMAIN d
    THEN [outcome |-> Return(PyNone), disk |-> d]
    ELSE IF rmtree_raises
         THEN [outcome |-> Raise, disk |-> [d EXCEPT ![temp_dir] = rest]]
         ELSE [outcome |-> Return(PyNone),
               disk |-> [dir \in DOMAIN d \ {temp_dir} |-> d[dir]]]

\* cleanup: "if self.temp_dir.exists(): shutil.rmtree(self.temp_dir)" inside
\* try/except Exception.  rmtree either removes the directory with all it
\* holds or raises, leaving the directory with the files in rest; the
\* exception is logged as a warning.
Cleanup(temp_dir, d, rmtree_raises, rest) ==
    IF temp_dir \notin DOMAIN d
    THEN [outcome |-> Return(PyNone), disk |-> d]
    ELSE IF rmtree_raises
         THEN [outcome |-> Return(PyNone), disk |-> [d EXCEPT ![temp_dir] = rest]]
         ELSE [outcome |-> Return(PyNone),
               disk |-> [dir \in DOMAIN d \ {temp_dir} |-> d[dir]]]

\* the extractor is constructed without a directory (temp_dir "None": it
\* calls mkdtemp), with a directory its owner has made, or with a path that
\* does not exist
InitCleanup ==
    /\ \E temp_dir \in {"None", AppTempDir, "missing"} :
          /\ call = [fn |-> "PDFExtractor", temp_dir |-> temp_dir]
          /\ disk = IF temp_dir = AppTempDir
                    THEN [dir \in {AppTempDir} |-> {<<"test", ".txt">>}]
                    ELSE <<>>
    /\ ret = NoRet
    /\ doc = [open |-> FALSE, len |-> 0] /\ result = <<>> /\ dpc = "idle"
    /\ app = [pc |-> "idle"]

\* PDFExtractor.__init__: self.temp_dir = temp_dir or Path(mkdtemp(...))
NewPDFExtractor ==
    /\ call.fn = "PDFExtractor"
    /\ app.pc = "idle"
    /\ app' = [pc |-> "live",
               temp_dir |-> IF call.temp_dir = "None" THEN ExtractorTempDir
                            ELSE call.temp_dir,
               calls |-> 0,            \* extraction calls made
               raised |-> FALSE,       \* one of them raised
               last |-> [op |-> "__init__"]]
    /\ disk' = IF call.temp_dir = "None"
               THEN [dir \in DOMAIN disk \cup {ExtractorTempDir} |->
                        IF dir \in DOMAIN disk THEN disk[dir] ELSE {}]
               ELSE disk
    /\ UNCHANGED <<call, ret, doc, result, dpc>>

\* extract_text(pdf_path)
CallExtractText ==
    /\ app.pc = "live"
    /\ app.calls < MaxCalls
    /\ \E file \in InputFiles :
          LET text == ExtractText(file) IN
          app' = [app EXCEPT !.calls = @ + 1,
                             !.raised = @ \/ text.raised,
                             !.last = [op |-> "extract_text", outcome |-> text]]
    /\ UNCHANGED <<call, ret, doc, result, dpc, disk>>

\* extract_images(pdf_path)
CallExtractImages ==
    /\ app.pc = "live"
    /\ app.calls < MaxCalls
    /\ \E file \in InputFiles :
          LET images == ExtractImages(app.temp_dir, file, disk) IN
          /\ app' = [app EXCEPT !.calls = @ + 1,
                                !.last = [op |-> "extract_images",
                                          outcome |-> Return(images.value)]]
          /\ disk' = images.disk
    /\ UNCHANGED <<call, ret, doc, result, dpc>>

\* extract(pdf_path): extract_text, then extract_images
CallExtract ==
    /\ app.pc = "live"
    /\ app.calls < MaxCalls
    /\ \E file \in InputFiles :
          LET text == ExtractText(file)
              images == ExtractImages(app.temp_dir, file, disk)
          IN IF text.raised
             THEN /\ app' = [app EXCEPT !.calls = @ + 1, !.raised = TRUE,
                                        !.last = [op |-> "extract", outcome |-> Raise]]
                  /\ UNCHANGED disk
             ELSE /\ app' = [app EXCEPT
                                !.calls = @ + 1,
                                !.last = [op |-> "extract",
                                          outcome |-> Return(<<text.value,
                                                               images.value>>)]]
                  /\ disk' = images.disk
    /\ UNCHANGED <<call, ret, doc, result, dpc>>

\* cleanup(); last records the disk before the call and whether rmtree raised
CallCleanup ==
    /\ app.pc = "live"
    /\ \E rmtree_raises \in BOOLEAN :
       \E rest \in SUBSET (IF app.temp_dir \in DOMAIN disk
                           THEN disk[app.temp_dir] ELSE {}) :
          LET done == Cleanup(app.temp_dir, disk, rmtree_raises, rest)
          IN /\ rmtree_raises => app.temp_dir \in DOMAIN disk
             /\ ~rmtree_raises => rest = {}
             /\ app' = [app EXCEPT
                           !.last = [op |-> "cleanup", outcome |-> done.outcome,
                                     before |-> disk,
                                     rmtree_raised |-> rmtree_raises]]
             /\ disk' = done.disk
    /\ UNCHANGED <<call, ret, doc, result, dpc>>

SpecCleanup ==
    InitCleanup /\ [][NewPDFExtractor \/ CallExtractText \/ CallExtractImages
                        \/ CallExtract \/ CallCleanup]_vars

(***************************************************************************)
(* Specification of the runs of the entry points main() of src/main.py and *)
(* of src/app.py, as far as the scratch directories go                     *)
(***************************************************************************)
\* the directory tempfile.mkdtemp creates for an EnhancedPDFExtractor
EnhancedTempDir == "pdf_extractor_2"

\* the disk with one more, empty, directory
MkDTemp(d, dir) ==
    [x \in DOMAIN d \cup {dir} |-> IF x \in DOMAIN d THEN d[x] ELSE {}]

\* the image files extract_comprehensive has saved when it returns or raises:
\* those of the pages before the first page whose extraction raises
RECURSIVE SavedImages(_, _)
SavedImages(pages, page_num) ==
    IF pages = <<>> \/ ExtractPageComprehensive(Head(pages), page_num, TRUE).raised
    THEN {}
    ELSE LET images == ExtractPageImages(Head(pages), page_num)
         IN {images[i].filename : i \in 1..Len(images)}
               \cup SavedImages(Tail(pages), page_num + 1)

InitMain ==
    /\ \E module \in {"main.py", "app.py"} : \E valid \in BOOLEAN :
          call = [fn |-> "main", module |-> module, config_valid |-> valid]
    /\ ret = NoRet
    /\ doc = [open |-> FALSE, len |-> 0] /\ result = <<>> /\ dpc = "idle"
    /\ app = [pc |-> "idle"]
    /\ disk = <<>>

\* main.py, main(): "app = PDFKnowledgeExtractorApp(args.config)".  __init__
\* leaves by sys.exit(1) when the configuration is not valid; otherwise it
\* makes the scratch directory (line 56) and the PDFExtractor, and then calls
\* AIAnalyzer(api_key=..., ...), which raises TypeError, because
\* AIAnalyzer.__init__ takes the one parameter config: the constructor never
\* returns and the name app is not bound.
MainPyConstruct ==
    /\ call.fn = "main" /\ call.module = "main.py"
    /\ app.pc = "idle"
    /\ IF call.config_valid
       THEN /\ disk' = MkDTemp(disk, AppTempDir)
            /\ app' = [pc |-> "finally", app_bound |-> FALSE, temp_dir |-> AppTempDir,
                       exception |-> "TypeError"]
       ELSE /\ app' = [pc |-> "finally", app_bound |-> FALSE, temp_dir |-> AppTempDir,
                       exception |-> "SystemExit"]
            /\ UNCHANGED disk
    /\ UNCHANGED <<call, ret, doc, result, dpc>>

\* main.py, main(): the except clauses and "finally: if 'app' in locals():
\* app.cleanup()", then the end of the run
MainPyFinally ==
    /\ call.fn = "main" /\ call.module = "main.py"
    /\ app.pc = "finally"
    /\ \E rmtree_raises \in BOOLEAN :
          /\ rmtree_raises => app.app_bound /\ app.temp_dir \in DOMAIN disk
          /\ disk' = IF app.app_bound
                     THEN Cleanup(app.temp_dir, disk, rmtree_raises, {}).disk
                     ELSE disk
    /\ app' = [app EXCEPT !.pc = "exited"]
    /\ ret' = Returned(Raise)
    /\ UNCHANGED <<call, doc, result, dpc>>

\* app.py, main(): "app = PDFKnowledgeExtractorApp()", of which
\* _init_components makes PDFExtractor() and EnhancedPDFExtractor(), each in
\* a try of its own (the import or mkdtemp may fail), and raises RuntimeError
\* when neither was made
AppPyConstruct ==
    /\ call.fn = "main" /\ call.module = "app.py"
    /\ app.pc = "idle"
    /\ \E extractor \in BOOLEAN : \E enhanced_extractor \in BOOLEAN :
          /\ disk' = LET d1 == IF extractor THEN MkDTemp(disk, ExtractorTempDir)
                                ELSE disk
                     IN IF enhanced_extractor THEN MkDTemp(d1, EnhancedTempDir)
                        ELSE d1
          /\ IF ~extractor /\ ~enhanced_extractor
             THEN /\ app' = [pc |-> "exited"]
                  /\ ret' = Returned(Raise)
             ELSE /\ app' = [pc |-> "running", extractor |-> extractor,
                             enhanced_extractor |-> enhanced_extractor, calls |-> 0]
                  /\ UNCHANGED ret
    /\ UNCHANGED <<call, doc, result, dpc>>

\* app.py, process_pdf (called from main, run_console or the GUI thread), as
\* far as the scratch directories go: extract_comprehensive saves the images
\* of the pages; in the other modes extract_images saves the rendered pages
\* once the text extraction has returned
AppPyProcessPdf ==
    /\ call.fn = "main" /\ call.module = "app.py"
    /\ app.pc = "running"
    /\ app.calls < MaxCalls
    /\ \E extraction_mode \in {"enhanced", "detailed", "raw_text_only"} :
          IF (extraction_mode = "enhanced" \/ ~app.extractor) /\ app.enhanced_extractor
          THEN \E first \in DocPages : \E second \in DocPages :
                  disk' = [disk EXCEPT ![EnhancedTempDir] =
                             @ \cup SavedImages(<<first, second>>, 0)]
          ELSE \E file \in InputFiles :
                  disk' = IF ExtractText(file).raised THEN disk
                          ELSE ExtractImages(ExtractorTempDir, file, disk).disk
    /\ app' = [app EXCEPT !.calls = @ + 1]
    /\ UNCHANGED <<call, ret, doc, result, dpc>>

\* app.py: the end of main() (end of run_console or run_gui, sys.exit)
AppPyExit ==
    /\ call.fn = "main" /\ call.module = "app.py"
    /\ app.pc = "running"
    /\ app' = [app EXCEPT !.pc = "exited"]
    /\ ret' = Returned(Return(PyNone))
    /\ UNCHANGED <<call, doc, result, dpc, disk>>

SpecMain ==
    InitMain /\ [][MainPyConstruct \/ MainPyFinally \/ AppPyConstruct
                     \/ AppPyProcessPdf \/ AppPyExit]_vars

(***************************************************************************)
(* Specification of PDFExtractorGUI (src/pdf_knowledge_extractor.py): the  *)
(* file selections and the worker threads they start.  All workers call    *)
(* the one PDFKnowledgeExtractor of the GUI, whose PDFExtractor saves the  *)
(* page images into the one temp_dir.  app.written holds, for each image   *)
(* file, the worker that wrote it last.                                    *)
(***************************************************************************)
MaxWorkers == 2

InitGui ==
    /\ call = [fn |-> "PDFExtractorGUI"]
    /\ ret = NoRet
    /\ doc = [open |-> FALSE, len |-> 0] /\ result = <<>> /\ dpc = "idle"
    /\ app = [pc |-> "mainloop", temp_dir |-> AppTempDir, workers |-> <<>>,
              written |-> {}]
    /\ disk = [dir \in {AppTempDir} |-> {}]

\* select_files and process_files: the files chosen in the dialog are given
\* to a new worker thread, whether or not an earlier worker still runs
SelectFiles ==
    /\ call.fn = "PDFExtractorGUI"
    /\ app.pc = "mainloop"
    /\ Len(app.workers) < MaxWorkers
    /\ \E n \in 1..2 : \E files \in [1..n -> InputFiles] :
          app' = [app EXCEPT !.workers =
                     Append(@, [files |-> files, i |-> 1, phase |-> "extract",
                                temp_dir |-> app.temp_dir, images |-> <<>>])]
    /\ UNCHANGED <<call, ret, doc, result, dpc, disk>>

\* worker w, process_file: "text, images = self.extractor.extract(file_path)";
\* an exception ends the worker (the except clause of worker)
WorkerExtract(w) ==
    /\ call.fn = "PDFExtractorGUI"
    /\ w \in 1..Len(app.workers)
    /\ app.workers[w].phase = "extract"
    /\ LET file == app.workers[w].files[app.workers[w].i]
           text == ExtractText(file)
           images == ExtractImages(app.workers[w].temp_dir, file, disk)
           saved == {images.value[k][2] : k \in 1..Len(images.value)}
       IN IF text.raised
          THEN /\ app' = [app EXCEPT !.workers[w].phase = "failed"]
               /\ UNCHANGED disk
          ELSE /\ app' = [app EXCEPT
                             !.workers[w].phase = "analyze",
                             !.workers[w].images = images.value,
                             !.written = {e \in @ : e.file \notin saved}
                                            \cup {[file |-> f, by |-> w] : f \in saved}]
               /\ disk' = images.disk
    /\ UNCHANGED <<call, ret, doc, result, dpc>>

\* worker w, process_file: the analysis reads the image files, the results
\* are saved; then the next file of the worker, or its end
WorkerAnalyze(w) ==
    /\ call.fn = "PDFExtractorGUI"
    /\ w \in 1..Len(app.workers)
    /\ app.workers[w].phase = "analyze"
    /\ app' = [app EXCEPT
                  !.workers[w].images = <<>>,
                  !.workers[w].i = @ + 1,
                  !.workers[w].phase =
                      IF app.workers[w].i = Len(app.workers[w].files)
                      THEN "done" ELSE "extract"]
    /\ UNCHANGED <<call, ret, doc, result, dpc, disk>>

SpecGui ==
    InitGui /\ [][SelectFiles \/ (\E w \in 1..MaxWorkers : WorkerExtract(w))
                    \/ (\E w \in 1..MaxWorkers : WorkerAnalyze(w))]_vars

(***************************************************************************)
(* Specification of _generate_markdown                                     *)
(*   The DocumentModel it is given is the result of extract_comprehensive  *)
(*   after the loop over the pages; app.before is that model as it was     *)
(*   before the first call, app.renders the outcomes of the calls so far.  *)
(***************************************************************************)
MaxRenders == 2

\* a page with nothing but a running header and a running footer; a page
\* whose image has an OCR text with two empty lines between two words
RenderPages ==
    DocPages
       \cup {[BlankPage EXCEPT
                !.blocks = <<StyledBlock(RunningText, <<11, 0>>, 5),
                             StyledBlock(RunningText, <<11, 0>>, 95)>>],
             [BlankPage EXCEPT
                !.images = <<PageImage(GrayPixmap, FALSE,
                                Return(<<"t", "\n", "\n", "\n", "u">>))>>]}

\* the loop "for page_num in range(len(doc))" over pages that do not raise
RECURSIVE ExtractPages(_, _, _)
ExtractPages(res, pages, ocr_available) ==
    IF pages = <<>> THEN res
    ELSE ExtractPages(
             Aggregate(res, ExtractPageComprehensive(Head(pages), Len(res.pages),
                                                     ocr_available).value),
             Tail(pages), ocr_available)

\* mutant: the Markdown is stored in the model it was rendered from
GenerateMarkdownCall_StoresMarkdown(res) ==
    LET markdown == GenerateMarkdown(res) IN
    [outcome |-> markdown,
     result |-> IF markdown.raised THEN res
                ELSE [res EXCEPT !.markdown_content = markdown.value]]

\* a call of _generate_markdown: its outcome and the model after the call
\* (the method reads result and assigns to none of its parts)
GenerateMarkdownCall(res) ==
    [outcome |-> GenerateMarkdown(res), result |-> res]

InitRender ==
    /\ call = [fn |-> "_generate_markdown"]
    /\ ret = NoRet
    /\ doc = [open |-> FALSE, len |-> 0] /\ dpc = "idle" /\ disk = <<>>
    /\ \E avail \in BOOLEAN : \E pdf_path \in PdfPaths :
       \E doc_metadata \in DocMetadatas : \E n \in 1..MaxPages :
       \E pages \in [1..n -> RenderPages] :
          LET metadata == ExtractPdfMetadata(doc_metadata, pdf_path, n) IN
          /\ ~metadata.raised
          /\ \A i \in 1..n : ~ExtractPageComprehensive(pages[i], i - 1, avail).raised
          /\ result = ExtractPages(NewResult(metadata.value, n), pages, avail)
          /\ app = [pc |-> "render", before |-> result, renders |-> <<>>]

CallGenerateMarkdown ==
    /\ call.fn = "_generate_markdown"
    /\ Len(app.renders) < MaxRenders
    /\ LET rendered == GenerateMarkdownCall(result) IN
       /\ ret' = Returned(rendered.outcome)
       /\ result' = rendered.result
       /\ app' = [app EXCEPT !.renders = Append(@, rendered.outcome)]
    /\ UNCHANGED <<call, doc, dpc, disk>>

SpecRender == InitRender /\ [][CallGenerateMarkdown]_vars

(***************************************************************************)
(* Specification of PDFExtractor.extract_text, statement by statement      *)
(*   app.opens and app.closes count the calls of fitz.open and doc.close;  *)
(*   app.page_num is the loop variable, app.text the local variable text.  *)
(***************************************************************************)
MaxTextPages == 3

\* the outcomes of page.get_text(): an exception or the text of the page
PageTexts == {Raise, Return(<<>>), Return(<<"a">>), Return(<<"b", "\n">>)}

\* mutant: the text of the page is put in front of the text read so far
AddPageText_InFront(text, page_text) == page_text \o text

\* "text += page.get_text()"
AddPageText(text, page_text) == text \o page_text

InitText ==
    /\ \E open_raises \in BOOLEAN : \E n \in 0..MaxTextPages :
       \E pages \in [1..n -> PageTexts] :
          call = [fn |-> "extract_text",
                  file |-> [open_raises |-> open_raises, pages |-> pages]]
    /\ ret = NoRet
    /\ doc = [open |-> FALSE, len |-> 0] /\ result = <<>> /\ dpc = "idle"
    /\ app = [pc |-> "start", opens |-> 0, closes |-> 0, page_num |-> 0,
              text |-> <<>>]
    /\ disk = <<>>

\* "doc = fitz.open(pdf_path)" and "text = ''"; an exception is logged and
\* raised again
TextOpen ==
    /\ call.fn = "extract_text"
    /\ app.pc = "start"
    /\ IF call.file.open_raises
       THEN /\ app' = [app EXCEPT !.pc = "raised", !.opens = @ + 1]
            /\ ret' = Returned(Raise)
            /\ UNCHANGED doc
       ELSE /\ app' = [app EXCEPT !.pc = "pages", !.opens = @ + 1]
            /\ doc' = [open |-> TRUE, len |-> Len(call.file.pages)]
            /\ UNCHANGED ret
    /\ UNCHANGED <<call, result, dpc, disk>>

\* one iteration of "for page_num in range(len(doc))"; an exception of
\* page.get_text() is logged and raised again, the document is not closed
TextNextPage ==
    /\ call.fn = "extract_text"
    /\ app.pc = "pages"
    /\ app.page_num < doc.len
    /\ LET page == call.file.pages[app.page_num + 1] IN
       IF page.raised
       THEN /\ app' = [app EXCEPT !.pc = "raised"]
            /\ ret' = Returned(Raise)
       ELSE /\ app' = [app EXCEPT !.page_num = @ + 1,
                                  !.text = AddPageText(@, page.value)]
            /\ UNCHANGED ret
    /\ UNCHANGED <<call, doc, result, dpc, disk>>

\* "doc.close()" and "return text"
TextClose ==
    /\ call.fn = "extract_text"
    /\ app.pc = "pages"
    /\ app.page_num = doc.len
    /\ app' = [app EXCEPT !.pc = "returned", !.closes = @ + 1]
    /\ doc' = [doc EXCEPT !.open = FALSE]
    /\ ret' = Returned(Return(app.text))
    /\ UNCHANGED <<call, result, dpc, disk>>

SpecText == InitText /\ [][TextOpen \/ TextNextPage \/ TextClose]_vars

(***************************************************************************)
(* Specification of PDFExtractor.extract_images and PDFExtractor.extract,  *)
(* statement by statement                                                  *)
(*   file.renders[k] is what rendering and saving page k does: "ok",       *)
(*   "pixmap_raises" (page.get_pixmap raises) or "save_raises" (pix.save   *)
(*   raises).  app.image_paths is the local list image_paths.              *)
(***************************************************************************)
MaxImagePages == 3

\* mutant: the limit max_images is ignored
ImageCount_AllPages(page_count, limit) == page_count

\* min(len(doc), max_images)
ImageCount(page_count, limit) == IF page_count < limit THEN page_count ELSE limit

\* the value the call returns when extract_images returns images
ImagesReturn(images) ==
    Returned(Return(IF call.fn = "extract" THEN <<app.text, images>> ELSE images))

InitImages ==
    /\ \E fn \in {"extract_images", "extract"} : \E limit \in {0, 2, max_images} :
       \E open_raises \in BOOLEAN : \E text_raises \in BOOLEAN :
       \E n \in 0..MaxImagePages :
       \E renders \in [1..n -> {"ok", "pixmap_raises", "save_raises"}] :
          /\ text_raises => fn = "extract" /\ n > 0
          /\ fn = "extract" => limit = max_images
          /\ call = [fn |-> fn, max_images |-> limit,
                     file |-> [stem |-> "a", open_raises |-> open_raises,
                               renders |-> renders,
                               pages |-> [k \in 1..n |->
                                            IF text_raises /\ k = n THEN Raise
                                            ELSE Return(<<"a">>)]]]
          /\ app = [pc |-> IF fn = "extract" THEN "text" ELSE "start",
                    temp_dir |-> ExtractorTempDir,
                    opens |-> 0, closes |-> 0, page_num |-> 0,
                    text |-> <<>>, image_paths |-> <<>>]
    /\ ret = NoRet
    /\ doc = [open |-> FALSE, len |-> 0] /\ result = <<>> /\ dpc = "idle"
    /\ disk = [dir \in {ExtractorTempDir} |-> {}]

\* extract: "text = self.extract_text(pdf_path)"; its exception leaves extract
ImagesText ==
    /\ call.fn = "extract"
    /\ app.pc = "text"
    /\ LET text == ExtractText(call.file) IN
       IF text.raised
       THEN /\ app' = [app EXCEPT !.pc = "raised"]
            /\ ret' = Returned(Raise)
       ELSE /\ app' = [app EXCEPT !.pc = "start", !.text = text.value]
            /\ UNCHANGED ret
    /\ UNCHANGED <<call, doc, result, dpc, disk>>

\* "doc = fitz.open(pdf_path)", "image_paths = []"; except: return []
ImagesOpen ==
    /\ call.fn \in {"extract_images", "extract"}
    /\ app.pc = "start"
    /\ IF call.file.open_raises
       THEN /\ app' = [app EXCEPT !.pc = "returned", !.opens = @ + 1]
            /\ ret' = ImagesReturn(<<>>)
            /\ UNCHANGED doc
       ELSE /\ app' = [app EXCEPT !.pc = "pages", !.opens = @ + 1]
            /\ doc' = [open |-> TRUE, len |-> Len(call.file.renders)]
            /\ UNCHANGED ret
    /\ UNCHANGED <<call, result, dpc, disk>>

\* one iteration of "for page_num in range(min(len(doc), max_images))";
\* except: return [], the document is not closed
ImagesNextPage ==
    /\ call.fn \in {"extract_images", "extract"}
    /\ app.pc = "pages"
    /\ app.page_num < ImageCount(doc.len, call.max_images)
    /\ LET image_path == <<app.temp_dir,
                           <<call.file.stem, "_page_", app.page_num + 1, ".png">>>>
       IN IF call.file.renders[app.page_num + 1] = "ok"
          THEN /\ app' = [app EXCEPT !.page_num = @ + 1,
                                     !.image_paths = Append(@, image_path)]
               /\ disk' = [disk EXCEPT ![app.temp_dir] = @ \cup {image_path[2]}]
               /\ UNCHANGED ret
          ELSE /\ app' = [app EXCEPT !.pc = "returned"]
               /\ ret' = ImagesReturn(<<>>)
               /\ UNCHANGED disk
    /\ UNCHANGED <<call, doc, result, dpc>>

\* "doc.close()", "return image_paths"
ImagesClose ==
    /\ call.fn \in {"extract_images", "extract"}
    /\ app.pc = "pages"
    /\ app.page_num = ImageCount(doc.len, call.max_images)
    /\ app' = [app EXCEPT !.pc = "returned", !.closes = @ + 1]
    /\ doc' = [doc EXCEPT !.open = FALSE]
    /\ ret' = ImagesReturn(app.image_paths)
    /\ UNCHANGED <<call, result, dpc, disk>>

SpecImages ==
    InitImages /\ [][ImagesText \/ ImagesOpen \/ ImagesNextPage \/ ImagesClose]_vars

(***************************************************************************)
(* Specification of _extract_page_images                                   *)
(*   call.get_images_raises: whether page.get_images() raises; the call is *)
(*   made before the loop and outside its try block.                       *)
(***************************************************************************)
\* the images of a page: GRAY, RGB with alpha, CMYK, CMYK with alpha; an
\* image whose pixmap cannot be made; an image that cannot be saved
EmbeddedImages ==
    {PageImage(GrayPixmap, FALSE, Raise),
     PageImage([GrayPixmap EXCEPT !.value.n = 4, !.value.alpha = 1], FALSE, Raise),
     PageImage([GrayPixmap EXCEPT !.value.n = 4], FALSE, Raise),
     PageImage([GrayPixmap EXCEPT !.value.n = 5, !.value.alpha = 1], FALSE, Raise),
     PageImage(Raise, FALSE, Raise),
     PageImage(GrayPixmap, TRUE, Raise)}

\* _extract_page_images: Raise when page.get_images() raises, or the list
\* the loop builds
ExtractPageImagesCall(get_images_raises, page, page_num) ==
    IF get_images_raises THEN Raise
    ELSE Return(ExtractPageImages(page, page_num))

InitPageImages ==
    /\ \E get_images_raises \in BOOLEAN : \E page_num \in 0..1 :
       \E n \in 0..MaxImages : \E images \in [1..n -> EmbeddedImages] :
          call = [fn |-> "_extract_page_images",
                  get_images_raises |-> get_images_raises,
                  page |-> [BlankPage EXCEPT !.images = images],
                  page_num |-> page_num]
    /\ ret = NoRet
    /\ IdleDoc

CallExtractPageImages ==
    /\ call.fn = "_extract_page_images"
    /\ ~ret.done
    /\ ret' = Returned(ExtractPageImagesCall(call.get_images_raises, call.page,
                                             call.page_num))
    /\ UNCHANGED <<call, doc, result, dpc, app, disk>>

SpecPageImages == InitPageImages /\ [][CallExtractPageImages]_vars

(***************************************************************************)
(* Specification of _extract_page_comprehensive on pages whose blocks may  *)
(* be empty and whose unstructured text varies                             *)
(***************************************************************************)
\* text blocks: body "a", header "b", footer "b", a two-line block; a block
\* of blank text, a block without lines, a block whose line has no span; an
\* image block
TextPageBlocks ==
    {StyledBlock(<<"a">>, <<11, 0>>, 50),
     StyledBlock(<<"b">>, <<16, 0>>, 50),
     StyledBlock(<<"b">>, <<11, 0>>, 95),
     LinesBlock(<<<<" ">>, <<"a", " ">>>>),
     LinesBlock(<<<<" ", "\t">>>>),
     LinesBlock(<<>>),
     [LinesBlock(<<<<>>>>) EXCEPT !.lines = <<[spans |-> <<>>]>>],
     ImageBlock}

\* the outcomes of page.get_text(): an exception, or the text of the page
UnstructuredTexts ==
    {Raise, Return(<<>>), Return(<<" ", "\n">>), Return(<<"a", "\n">>),
     Return(<<"a", "\n", "b", "\n">>), Return(<<"a", "\n", "b", "\n", "c", "\n">>)}

InitPageText ==
    /\ \E n \in 0..MaxBlocks : \E bs \in [1..n -> TextPageBlocks] :
       \E text \in UnstructuredTexts :
          call = [fn |-> "_extract_page_comprehensive",
                  page |-> [BlankPage EXCEPT !.blocks = bs, !.get_text = text],
                  page_num |-> 0, ocr_available |-> TRUE]
    /\ ret = NoRet
    /\ IdleDoc

SpecPageText == InitPageText /\ [][CallExtractPageComprehensive]_vars

(***************************************************************************)
(* Specification of the other operations of PDFExtractor that open the     *)
(* document: extract_text_with_formatting, extract_raw_text_only and       *)
(* extract_detailed_text, statement by statement                           *)
(*   file.pages[k] is the outcome of the work on page k: an exception, or  *)
(*   the text made of the page; file.stat_raises and file.format_raises    *)
(*   say whether pdf_path.stat() and _create_formatted_text raise          *)
(*   (extract_detailed_text only).  app.text is the text gathered so far.  *)
(***************************************************************************)
MaxHandlePages == 2

InitHandle ==
    /\ \E fn \in {"extract_text_with_formatting", "extract_raw_text_only",
                  "extract_detailed_text"} :
       \E open_raises \in BOOLEAN : \E stat_raises \in BOOLEAN :
       \E format_raises \in BOOLEAN : \E n \in 0..MaxHandlePages :
       \E pages \in [1..n -> PageTexts] :
          /\ stat_raises \/ format_raises => fn = "extract_detailed_text"
          /\ call = [fn |-> fn,
                     file |-> [open_raises |-> open_raises,
                               stat_raises |-> stat_raises,
                               format_raises |-> format_raises,
                               pages |-> pages]]
    /\ ret = NoRet
    /\ doc = [open |-> FALSE, len |-> 0] /\ result = <<>> /\ dpc = "idle"
    /\ app = [pc |-> "start", opens |-> 0, closes |-> 0, page_num |-> 0,
              text |-> <<>>]
    /\ disk = <<>>

\* "doc = fitz.open(pdf_path)" and the initialisation of the result, which
\* calls pdf_path.stat() in extract_detailed_text; an exception is logged and
\* raised again
HandleOpen ==
    /\ call.fn \in {"extract_text_with_formatting", "extract_raw_text_only",
                    "extract_detailed_text"}
    /\ app.pc = "start"
    /\ IF call.file.open_raises
       THEN /\ app' = [app EXCEPT !.pc = "raised", !.opens = @ + 1]
            /\ ret' = Returned(Raise)
            /\ UNCHANGED doc
       ELSE /\ doc' = [open |-> TRUE, len |-> Len(call.file.pages)]
            /\ IF call.file.stat_raises
               THEN /\ app' = [app EXCEPT !.pc = "raised", !.opens = @ + 1]
                    /\ ret' = Returned(Raise)
               ELSE /\ app' = [app EXCEPT !.pc = "pages", !.opens = @ + 1]
                    /\ UNCHANGED ret
    /\ UNCHANGED <<call, result, dpc, disk>>

\* one iteration of "for page_num in range(len(doc))": the text of the page
\* is added, after the line "=== Page N ===" in extract_text_with_formatting,
\* and followed by a line break; an exception is logged and raised again
HandleNextPage ==
    /\ call.fn \in {"extract_text_with_formatting", "extract_raw_text_only",
                    "extract_detailed_text"}
    /\ app.pc = "pages"
    /\ app.page_num < doc.len
    /\ LET page == call.file.pages[app.page_num + 1]
           banner == IF call.fn = "extract_text_with_formatting"
                     THEN <<"=", "=", "=", " ", "P", "a", "g", "e", " ">>
                             \o IntStr(app.page_num + 1)
                             \o <<" ", "=", "=", "=", "\n">>
                     ELSE <<>>
       IN IF page.raised
          THEN /\ app' = [app EXCEPT !.pc = "raised"]
               /\ ret' = Returned(Raise)
          ELSE /\ app' = [app EXCEPT
                             !.page_num = @ + 1,
                             !.text = @ \o banner \o page.value \o <<"\n">>]
               /\ UNCHANGED ret
    /\ UNCHANGED <<call, doc, result, dpc, disk>>

\* mutant: the document is closed before _create_formatted_text is called
HandleClose_BeforeFormat ==
    /\ call.fn \in {"extract_text_with_formatting", "extract_raw_text_only",
                    "extract_detailed_text"}
    /\ app.pc = "pages"
    /\ app.page_num = doc.len
    /\ doc' = [doc EXCEPT !.open = FALSE]
    /\ IF call.file.format_raises
       THEN /\ app' = [app EXCEPT !.pc = "raised", !.closes = @ + 1]
            /\ ret' = Returned(Raise)
       ELSE /\ app' = [app EXCEPT !.pc = "returned", !.closes = @ + 1]
            /\ ret' = Returned(Return(app.text))
    /\ UNCHANGED <<call, result, dpc, disk>>

\* after the loop: _create_formatted_text in extract_detailed_text, whose
\* exception is logged and raised again; "doc.close()" and the return
HandleClose ==
    /\ call.fn \in {"extract_text_with_formatting", "extract_raw_text_only",
                    "extract_detailed_text"}
    /\ app.pc = "pages"
    /\ app.page_num = doc.len
    /\ IF call.file.format_raises
       THEN /\ app' = [app EXCEPT !.pc = "raised"]
            /\ ret' = Returned(Raise)
            /\ UNCHANGED doc
       ELSE /\ app' = [app EXCEPT !.pc = "returned", !.closes = @ + 1]
            /\ doc' = [doc EXCEPT !.open = FALSE]
            /\ ret' = Returned(Return(app.text))
    /\ UNCHANGED <<call, result, dpc, disk>>

\* the operations that open a PDF handle, of both extractors
SpecHandles ==
    /\ InitHandle \/ InitText \/ InitImages \/ InitDoc
    /\ [][\/ HandleOpen \/ HandleNextPage \/ HandleClose
          \/ TextOpen \/ TextNextPage \/ TextClose
          \/ ImagesText \/ ImagesOpen \/ ImagesNextPage \/ ImagesClose
          \/ OpenDocument \/ ExtractNextPage \/ FinishDocument]_vars

(***************************************************************************)
(* C2                                                                      *)
(***************************************************************************)
C2_Spans ==
    Concat([i \in 1..Len(call.block.lines) |-> call.block.lines[i].spans])
C2_Total == SeqSum([i \in 1..Len(C2_Spans) |-> C2_Spans[i].size])
C2_Count == Len(C2_Spans)
\* avg_font_size >= k, the average being 0 for a block without spans
C2_AvgAtLeast(k) == IF C2_Count = 0 THEN 0 >= k ELSE C2_Total >= k * C2_Count
C2_Bold == \E i \in 1..C2_Count : C2_Spans[i].flags % 32 >= 16
C2_ExpectedHeader == C2_AvgAtLeast(12) /\ (C2_Bold \/ C2_AvgAtLeast(16))
C2_ExpectedLevel ==
    IF ~C2_ExpectedHeader THEN 0
    ELSE IF C2_AvgAtLeast(16) THEN 1
    ELSE IF C2_AvgAtLeast(14) THEN 2
    ELSE 3

\* C2: _process_text_block sets is_header exactly when avg_font_size >= 12 and
\* (bold or avg_font_size >= 16); header_level is 1 from 16, 2 from 14, else 3 for
\* a header and 0 for a non-header, so it is in 1..3 exactly for headers.
C2_HeaderRule ==
    (call.fn = "_process_text_block" /\ ret.done) =>
        /\ ret.value.is_header = C2_ExpectedHeader
        /\ ret.value.header_level = C2_ExpectedLevel
        /\ (ret.value.header_level \in 1..3) = ret.value.is_header

\* a block of size 16 that is not bold has been processed into a level-1 header
C2_Witness ==
    /\ call.fn = "_process_text_block" /\ ret.done
    /\ C2_Count = 1 /\ C2_Spans[1].size = 16 /\ ~C2_Bold
    /\ ret.value.is_header /\ ret.value.header_level = 1

(***************************************************************************)
(* C6                                                                      *)
(***************************************************************************)
\* C6: the list _extract_tables returns holds tables of one path only, the
\* native detection or the text-alignment fallback, never of both.
C6_OnePathOnly ==
    (call.fn = "_extract_tables" /\ ret.done) =>
        ~(ret.value.n_native > 0 /\ Len(ret.value.tables) > ret.value.n_native)

(***************************************************************************)
(* C7                                                                      *)
(***************************************************************************)
\* some call of the native path raises: find_tables() or a table's extract()
C7_NativeRaises ==
    \/ call.page.find_tables.raised
    \/ \E i \in 1..Len(call.page.find_tables.value) :
          call.page.find_tables.value[i].extract.raised

C7_ZeroTablesFound ==
    ~call.page.find_tables.raised /\ call.page.find_tables.value = <<>>

\* C7: _extract_tables invokes _extract_tables_alternative if and only if the
\* native path raises; zero tables found without an exception give no fallback
\* and zero tables.
C7_FallbackIffRaise ==
    (call.fn = "_extract_tables" /\ ret.done) =>
        /\ ret.value.alt_called = C7_NativeRaises
        /\ C7_ZeroTablesFound => (~ret.value.alt_called /\ ret.value.tables = <<>>)

\* native detection found nothing on a page whose text has two candidate rows
C7_Witness ==
    /\ call.fn = "_extract_tables" /\ ret.done
    /\ C7_ZeroTablesFound
    /\ ~call.page.dict_raises
    /\ ExtractTablesAlternative(call.page, call.page_num).value # <<>>
    /\ ret.value.tables = <<>>

(***************************************************************************)
(* C8                                                                      *)
(***************************************************************************)
\* position i of line s lies in a separator: a tab, or a character of run
\* next to another character of run
C8_InSeparator(s, i, run) ==
    \/ s[i] = "\t"
    \/ /\ s[i] \in run
       /\ \/ (i > 1 /\ s[i - 1] \in run)
          \/ (i < Len(s) /\ s[i + 1] \in run)

\* the trimmed non-empty pieces of s between its separators, from position i on
RECURSIVE C8_CellsFrom(_, _, _)
C8_CellsFrom(s, i, run) ==
    IF i > Len(s) THEN <<>>
    ELSE IF C8_InSeparator(s, i, run) THEN C8_CellsFrom(s, i + 1, run)
    ELSE LET j == CHOOSE k \in i..Len(s) :
                     /\ \A m \in i..k : ~C8_InSeparator(s, m, run)
                     /\ (k = Len(s) \/ C8_InSeparator(s, k + 1, run))
             cell == Strip(SubSeq(s, i, j))
         IN (IF cell # <<>> THEN <<cell>> ELSE <<>>) \o C8_CellsFrom(s, j + 1, run)

\* s contains two consecutive spaces or a tab
C8_HasSeparator(s) == \E i \in 1..Len(s) : C8_InSeparator(s, i, {" "})

\* the text lines of the page in source order
C8_LineTexts ==
    LET blocks == call.page.blocks
        lines == Concat([b \in 1..Len(blocks) |->
                            IF blocks[b].has_lines THEN blocks[b].lines ELSE <<>>])
    IN [i \in 1..Len(lines) |->
           Concat([k \in 1..Len(lines[i].spans) |-> lines[i].spans[k].text])]

\* the rows cells(t) of the lines t that satisfy candidate, in source order
C8_Rows(candidate(_), cells(_)) ==
    LET texts == C8_LineTexts
        idx == {i \in 1..Len(texts) : candidate(texts[i])}
        \* the k-th smallest index of idx
        nth[k \in 1..Cardinality(idx)] ==
            CHOOSE i \in idx : Cardinality({j \in idx : j < i}) = k - 1
    IN [k \in 1..Cardinality(idx) |-> cells(texts[nth[k]])]

\* from 2 candidate rows on exactly one table of all of them, numbered 1, with
\* the page rectangle as bbox; otherwise no table; and the Name/Score page
C8_TableOf(rows) ==
    LET tables == ret.value.value
    IN /\ Len(rows) < 2 => tables = <<>>
       /\ Len(rows) >= 2 =>
             /\ Len(tables) = 1
             /\ tables[1].data = rows
             /\ tables[1].table_number = 1
             /\ tables[1].page_number = call.page_num + 1
             /\ tables[1].bbox = <<0, 0, call.page.width, call.page.height>>
       /\ C8_LineTexts = <<NameScore, Alice90>> =>
             /\ Len(tables) = 1
             /\ tables[1].data = <<<<<<"N", "a", "m", "e">>, <<"S", "c", "o", "r", "e">>>>,
                                   <<<<"A", "l", "i", "c", "e">>, <<"9", "0">>>>>>

C8_SpaceCells(s) == C8_CellsFrom(s, 1, {" "})
C8_SpaceCandidate(s) == C8_HasSeparator(s) /\ Len(C8_SpaceCells(s)) >= 2

C8_WhitespaceCells(s) == C8_CellsFrom(s, 1, Whitespace)
C8_WhitespaceCandidate(s) ==
    C8_HasSeparator(Strip(s)) /\ Len(C8_WhitespaceCells(s)) >= 2

RECURSIVE C9_TextLines(_, _)
C9_TextLines(text, cur) ==
    IF text = <<>> THEN <<cur>>
    ELSE IF Head(text) = "\n" THEN <<cur>> \o C9_TextLines(Tail(text), <<>>)
    ELSE C9_TextLines(Tail(text), Append(cur, Head(text)))

\* '| c1 | c2 | ... |', a cell without value being the empty string
RECURSIVE C9_Cells(_)
C9_Cells(row) ==
    IF row = <<>> THEN <<>>
    ELSE (IF Head(row) = PyNone THEN <<>> ELSE Head(row))
            \o <<" ", "|">> \o (IF Len(row) > 1 THEN <<" ">> ELSE <<>>)
            \o C9_Cells(Tail(row))
C9_RowFormat(row) ==
    IF row = <<>> THEN <<"|", " ", " ", "|">> ELSE <<"|", " ">> \o C9_Cells(row)

C9_Dashes(row) == [i \in 1..Len(row) |-> <<"-", "-", "-">>]

C9_Format ==
    LET rows == call.table_data
        lines == C9_TextLines(ret.value, <<>>)
    IN /\ rows = <<>> => ret.value = <<>>
       /\ rows # <<>> =>
             /\ Len(lines) = Len(rows) + 1
             /\ lines[1] = C9_RowFormat(rows[1])
             /\ lines[2] = C9_RowFormat(C9_Dashes(rows[1]))
             /\ \A i \in 2..Len(rows) : lines[i + 1] = C9_RowFormat(rows[i])
       /\ rows = <<<<<<"A">>, <<"B">>>>, <<<<"1">>, <<"2">>>>>> =>
             lines = << <<"|", " ", "A", " ", "|", " ", "B", " ", "|">>,
                        <<"|", " ", "-", "-", "-", " ", "|", " ", "-", "-", "-", " ", "|">>,
                        <<"|", " ", "1", " ", "|", " ", "2", " ", "|">> >>

\* C9: for a non-empty cell matrix _convert_table_to_markdown returns exactly
\* len(rows)+1 lines joined by newlines: the first row as '| c1 | c2 | ... |',
\* a separator line with one '---' per column of the first row, then each
\* remaining row in the same format; for an empty matrix the empty string.
C9_MarkdownLines ==
    (call.fn = "_convert_table_to_markdown" /\ ret.done) => C9_Format

\* the same for the matrices none of whose cells contains a newline
C9_NoNewlineInCell ==
    \A i \in 1..Len(call.table_data) : \A k \in 1..Len(call.table_data[i]) :
       \A m \in 1..Len(call.table_data[i][k]) : call.table_data[i][k][m] # "\n"
C9_MarkdownLinesOfOneLineCells ==
    (call.fn = "_convert_table_to_markdown" /\ ret.done /\ C9_NoNewlineInCell)
        => C9_Format

(***************************************************************************)
(* C10                                                                     *)
(***************************************************************************)
\* image k of the list is one on which OCR returned text that is not blank
C10_Recognised(k) ==
    LET outcome == call.ocr[call.images[k].image_number]
    IN /\ call.ocr_available
       /\ ~outcome.raised
       /\ \E m \in 1..Len(outcome.value) : outcome.value[m] \notin {" ", "\t", "\n", Nbsp}

\* C10: _process_images_with_ocr never raises, and its result has exactly one
\* entry for each image on which OCR did not raise and returned text that is
\* non-empty after trimming, in image order, with that image's image_number;
\* an image on which OCR raises or returns blank text contributes no entry and
\* does not stop the later images.
C10_OcrIsolation ==
    (call.fn = "_process_images_with_ocr" /\ ret.done) =>
        LET good == {k \in 1..Len(call.images) : C10_Recognised(k)}
            results == ret.value.value
        IN /\ ~ret.value.raised
           /\ Len(results) = Cardinality(good)
           /\ \A r \in 1..Len(results) :
                 \E k \in good :
                    /\ Cardinality({j \in good : j < k}) = r - 1
                    /\ results[r].image_number = call.images[k].image_number
                    /\ results[r].image_info = call.images[k]
                    /\ results[r].page_number = call.page_num + 1

\* 3 images, OCR raising on image 2 only: the results are those of images 1 and 3
C10_Witness ==
    /\ call.fn = "_process_images_with_ocr" /\ ret.done
    /\ Len(call.images) = 3
    /\ C10_Recognised(1) /\ call.ocr[2].raised /\ C10_Recognised(3)
    /\ Len(ret.value.value) = 2
    /\ ret.value.value[1].image_number = 1
    /\ ret.value.value[2].image_number = 3

(***************************************************************************)
(* C1                                                                      *)
(***************************************************************************)
C1_Header(b) == b.is_header
C1_Footer(b) == ~b.is_header /\ b.is_footer
C1_PageHeader(b) == ~b.is_header /\ ~b.is_footer /\ b.is_page_header
C1_Footnote(b) ==
    ~b.is_header /\ ~b.is_footer /\ ~b.is_page_header /\ b.is_footnote

\* C1: every emitted block is in at most one of headers, page_footers,
\* page_headers, footnotes, chosen by the precedence Header > Footer >
\* PageHeader > Footnote over its four predicates; a block with none of the
\* four is in none of the lists.
C1_RolePrecedence ==
    (call.fn = "_extract_page_comprehensive" /\ ret.done /\ ~ret.value.raised) =>
        LET page_info == ret.value.value
            emitted == page_info.structured_content
        IN /\ page_info.headers = SelectSeq(emitted, C1_Header)
           /\ page_info.page_footers = SelectSeq(emitted, C1_Footer)
           /\ page_info.page_headers = SelectSeq(emitted, C1_PageHeader)
           /\ page_info.footnotes = SelectSeq(emitted, C1_Footnote)
           /\ Len(page_info.headers) + Len(page_info.page_footers)
                 + Len(page_info.page_headers) + Len(page_info.footnotes)
                 <= Len(emitted)

\* a page with a block that is a header and in the footer zone, and a block
\* that is in the footer zone and of footnote size, has been extracted
C1_Witness ==
    /\ call.fn = "_extract_page_comprehensive" /\ ret.done /\ ~ret.value.raised
    /\ \E b \in 1..Len(ret.value.value.headers) :
          ret.value.value.headers[b].is_footer
    /\ \E b \in 1..Len(ret.value.value.page_footers) :
          ret.value.value.page_footers[b].is_footnote

(***************************************************************************)
(* C3                                                                      *)
(***************************************************************************)
\* avg_font_size < 10 and 0.8*H < y_position <= 0.9*H
C3_FootnoteZone(b) ==
    /\ b.font_size.num < 10 * b.font_size.den
    /\ 8 * call.page.height < 10 * b.y_position
    /\ 10 * b.y_position <= 9 * call.page.height

\* a block of a given font size at y = 0.95*H, at y = 0.85*H
C3_At(b, size, percent) ==
    /\ b.font_size.num = size * b.font_size.den
    /\ 100 * b.y_position = percent * call.page.height

C3_In(list, b) == \E i \in 1..Len(list) : list[i] = b

\* C3: a block is routed to footnotes only if it fails the header, footer and
\* page-header checks, that is exactly if avg_font_size < 10 and
\* 0.8*H < y_position <= 0.9*H; size 11 at 0.95*H and size 8 at 0.95*H go to
\* page_footers, size 8 at 0.85*H goes to footnotes.
C3_FootnoteRouting ==
    (call.fn = "_extract_page_comprehensive" /\ ret.done /\ ~ret.value.raised) =>
        LET page_info == ret.value.value
            emitted == page_info.structured_content
        IN /\ page_info.footnotes = SelectSeq(emitted, C3_FootnoteZone)
           /\ \A i \in 1..Len(page_info.footnotes) :
                 LET b == page_info.footnotes[i]
                 IN ~b.is_header /\ ~b.is_footer /\ ~b.is_page_header
           /\ \A i \in 1..Len(emitted) :
                 LET b == emitted[i] IN
                 /\ C3_At(b, 11, 95) =>
                       C3_In(page_info.page_footers, b) /\ ~C3_In(page_info.footnotes, b)
                 /\ C3_At(b, 8, 95) =>
                       C3_In(page_info.page_footers, b) /\ ~C3_In(page_info.footnotes, b)
                 /\ C3_At(b, 8, 85) =>
                       C3_In(page_info.footnotes, b) /\ ~C3_In(page_info.page_footers, b)

\* a page with a block of size 8 at 0.95*H and one of size 8 at 0.85*H has
\* been extracted: the first is a page footer, the second a footnote
C3_Witness ==
    /\ call.fn = "_extract_page_comprehensive" /\ ret.done /\ ~ret.value.raised
    /\ Len(ret.value.value.page_footers) = 1
    /\ C3_At(ret.value.value.page_footers[1], 8, 95)
    /\ Len(ret.value.value.footnotes) = 1
    /\ C3_At(ret.value.value.footnotes[1], 8, 85)

(***************************************************************************)
(* C4  aggregation is concatenation in page order                          *)
(***************************************************************************)
C4_Returned ==
    call.fn = "extract_comprehensive" /\ ret.done /\ ~ret.value.raised
C4_Lists == {"headers", "tables", "footnotes", "images_with_text",
             "page_headers", "page_footers", "structured_content"}

\* the list named list of the first n page records, one page after the other
RECURSIVE C4_PagesConcat(_, _, _)
C4_PagesConcat(pages, list, n) ==
    IF n = 0 THEN <<>>
    ELSE C4_PagesConcat(pages, list, n - 1) \o pages[n][list]

\* C4: after extract_comprehensive returns, each aggregated list of the
\* document (headers, tables, footnotes, images_with_text, page_headers,
\* page_footers, structured_content) equals the concatenation, in ascending
\* page order, of the same-named list of every page record
C4_AggregationIsConcatenation ==
    C4_Returned =>
        LET res == ret.value.value IN
        \A list \in C4_Lists :
            res[list] = C4_PagesConcat(res.pages, list, Len(res.pages))

\* a returned document of two pages that both contribute headers and
\* structured content, the second also tables and OCR results
C4_Witness ==
    /\ C4_Returned
    /\ LET res == ret.value.value IN
       /\ Len(res.pages) = 2
       /\ res.pages[1].headers # <<>>
       /\ res.pages[2].headers # <<>>
       /\ res.pages[1].headers # res.pages[2].headers
       /\ res.pages[1].footnotes # <<>>
       /\ res.pages[1].page_headers # <<>>
       /\ res.pages[1].page_footers # <<>>
       /\ Len(res.structured_content) > Len(res.pages[1].structured_content)
       /\ res.headers = res.pages[1].headers \o res.pages[2].headers

(***************************************************************************)
(* C5  page numbering                                                      *)
(***************************************************************************)
C5_Returned ==
    call.fn = "extract_comprehensive" /\ ret.done /\ ~ret.value.raised

\* every element of the list carries page_number n
C5_AllCarry(list, n) == \A k \in 1..Len(list) : list[k].page_number = n

\* C5: for every document extract_comprehensive returns, pages has exactly
\* total_pages entries, the i-th entry (0-based) has page_number i+1, and
\* every block, table, image and OCR result of a page record carries that
\* page's page_number
C5_PageNumbering ==
    C5_Returned =>
        LET res == ret.value.value IN
        /\ Len(res.pages) = res.extraction_summary.total_pages
        /\ Len(res.pages) = res.metadata.total_pages
        /\ \A i \in 0..(Len(res.pages) - 1) :
              LET page_info == res.pages[i + 1] IN
              /\ page_info.page_number = i + 1
              /\ C5_AllCarry(page_info.text_blocks, i + 1)
              /\ C5_AllCarry(page_info.structured_content, i + 1)
              /\ C5_AllCarry(page_info.headers, i + 1)
              /\ C5_AllCarry(page_info.footnotes, i + 1)
              /\ C5_AllCarry(page_info.page_headers, i + 1)
              /\ C5_AllCarry(page_info.page_footers, i + 1)
              /\ C5_AllCarry(page_info.tables, i + 1)
              /\ C5_AllCarry(page_info.images, i + 1)
              /\ C5_AllCarry(page_info.images_with_text, i + 1)
              /\ \A k \in 1..Len(page_info.images_with_text) :
                    page_info.images_with_text[k].image_info.page_number = i + 1

\* a returned document whose second page stores a block, a table, an image
\* and an OCR result
C5_Witness ==
    /\ C5_Returned
    /\ LET res == ret.value.value IN
       /\ Len(res.pages) = 2
       /\ res.pages[2].page_number = 2
       /\ res.pages[2].text_blocks # <<>>
       /\ res.pages[2].tables # <<>>
       /\ res.pages[2].images # <<>>
       /\ res.pages[2].images_with_text # <<>>

(***************************************************************************)
(* C11                                                                     *)
(***************************************************************************)
\* extract_comprehensive has opened the document, read its metadata and
\* raised while a page was still to be extracted
C11_AbortedAtPage ==
    /\ call.fn = "extract_comprehensive"
    /\ dpc = "raised"
    /\ DOMAIN result # {}
    /\ Len(result.pages) < doc.len

\* C11: a per-page extraction anomaly (a malformed block dictionary on one
\* page) does not abort extract_comprehensive: once the document is open and
\* its metadata read, the page loop never raises, so the operation goes on
\* to return one page record per page.
C11_PageAnomalyDoesNotAbort == ~C11_AbortedAtPage

(***************************************************************************)
(* C12                                                                     *)
(***************************************************************************)
\* processing the file raises somewhere in the try body of process_files
C12_Fails(file) ==
    \/ file.open_raises
    \/ \E k \in 1..Len(file.pages) : file.pages[k].raised
    \/ file.analyze_raises \/ file.stat_raises \/ file.export_raises

\* the calls of fitz.open expected for a file: one when extract_text raises
\* (no retry), otherwise one of extract_text and one of extract_images
C12_Opens(file) ==
    IF file.open_raises \/ \E k \in 1..Len(file.pages) : file.pages[k].raised
    THEN <<file.name>>
    ELSE <<file.name, file.name>>

\* C12: a failure to open a PDF is raised by the extraction to its caller
\* without a retry; process_files catches it per file and continues: after
\* i iterations results holds one entry per input file 1..i, in input order,
\* with status 'error' for each failed file and 'success' for each other,
\* fitz.open was called once for each file it failed on, and the results
\* returned cover the whole input list.
C12_OneEntryPerFile ==
    call.fn = "process_files" /\ app.pc \in {"files", "returned"} =>
        /\ Len(app.results) = app.i
        /\ \A k \in 1..app.i :
              /\ app.results[k].file_path = call.file_paths[k].name
              /\ app.results[k].status =
                    IF C12_Fails(call.file_paths[k]) THEN "error" ELSE "success"
        /\ app.opened = Concat([k \in 1..app.i |-> C12_Opens(call.file_paths[k])])
        /\ app.pc = "returned" =>
              /\ app.i = Len(call.file_paths)
              /\ ret = Returned(Return(app.results))

\* process_files has returned for a list in which a file that cannot be
\* opened precedes a file that is processed with success
C12_Witness ==
    /\ call.fn = "process_files"
    /\ app.pc = "returned"
    /\ \E j \in 1..Len(call.file_paths) : \E k \in 1..Len(call.file_paths) :
          /\ j < k
          /\ call.file_paths[j].open_raises
          /\ app.results[j].status = "error"
          /\ app.results[k].status = "success"

C14_ScratchDeletedAtExit ==
    call.fn = "main" /\ app.pc = "exited" => DOMAIN disk = {}

(***************************************************************************)
(* C15                                                                     *)
(***************************************************************************)
\* worker w is running: its thread has been started and has not ended
C15_Running(w) == app.workers[w].phase \in {"extract", "analyze"}

\* C15: no two document extractions that run concurrently use the same
\* scratch directory, so that an image file an extraction has written and
\* still is to read was never overwritten by another extraction; this
\* includes the extractions started by successive file selections in the GUI.
C15_OwnScratchDirectory ==
    call.fn = "PDFExtractorGUI" =>
        /\ \A v \in 1..Len(app.workers) : \A w \in 1..Len(app.workers) :
              v # w /\ C15_Running(v) /\ C15_Running(w) =>
                 app.workers[v].temp_dir # app.workers[w].temp_dir
        /\ \A w \in 1..Len(app.workers) :
              \A k \in 1..Len(app.workers[w].images) :
                 [file |-> app.workers[w].images[k][2], by |-> w] \in app.written

C17_LineStarts(s) == {1} \cup {i + 1 : i \in {j \in 1..Len(s) : s[j] = "\n"}}

C17_LineEnd(s, a) ==
    CHOOSE b \in a..(Len(s) + 1) :
        /\ (b = Len(s) + 1 \/ s[b] = "\n")
        /\ \A c \in a..(b - 1) : s[c] # "\n"

C17_LineAt(s, a) == SubSeq(s, a, C17_LineEnd(s, a) - 1)

\* the page contributed a header block, a body block, a table or an OCR'd
\* image
C17_Contributed(page_info) ==
    \/ page_info.headers # <<>>
    \/ \E k \in 1..Len(page_info.structured_content) :
          RoleList(page_info.structured_content[k]) = "none"
    \/ page_info.tables # <<>>
    \/ page_info.images_with_text # <<>>

\* the number of lines "## Page N" of the rendered Markdown, N the number of
\* page_info
C17_Headings(markdown, page_info) ==
    LET heading == <<"#", "#", " ", "P", "a", "g", "e", " ">>
                       \o IntStr(page_info.page_number)
    IN Cardinality({a \in C17_LineStarts(markdown) :
                       C17_LineAt(markdown, a) = heading})

\* C17: the rendered Markdown has the heading "## Page N" once for a page
\* that contributed a header block, a body block, a table or an OCR'd image,
\* and not at all for any other page (a page with only page headers and
\* footers, a page without text blocks, tables and OCR results).
C17_HeadingIffContributed ==
    call.fn = "_generate_markdown" /\ ret.done /\ ~ret.value.raised =>
        \A i \in 1..Len(result.pages) :
           C17_Headings(ret.value.value, result.pages[i])
              = IF C17_Contributed(result.pages[i]) THEN 1 ELSE 0

\* a document whose first page has only a page header and a page footer and
\* whose second page has a table has been rendered
C17_Witness ==
    /\ call.fn = "_generate_markdown" /\ ret.done /\ ~ret.value.raised
    /\ Len(result.pages) = 2
    /\ result.pages[1].page_headers # <<>> /\ result.pages[1].page_footers # <<>>
    /\ ~C17_Contributed(result.pages[1])
    /\ result.pages[2].tables # <<>>
    /\ C17_Headings(ret.value.value, result.pages[2]) = 1

(***************************************************************************)
(* C18                                                                     *)
(***************************************************************************)
\* C18: the string _generate_markdown returns has no two consecutive blank
\* lines, also when a text inserted into it spans several lines.
C18_NoBlankRun ==
    call.fn = "_generate_markdown" /\ ret.done /\ ~ret.value.raised =>
        LET markdown == ret.value.value IN
        \A a \in C17_LineStarts(markdown) :
           LET next == C17_LineEnd(markdown, a) + 1 IN
           ~(/\ next \in C17_LineStarts(markdown)
             /\ Strip(C17_LineAt(markdown, a)) = <<>>
             /\ Strip(C17_LineAt(markdown, next)) = <<>>)

(***************************************************************************)
(* C19                                                                     *)
(***************************************************************************)
\* C19: each of the eight document fields of the record _extract_pdf_metadata
\* returns is a string, the empty string when doc.metadata lacks the key or
\* holds no value (None) for it.
C19_MetadataFieldsAreStrings ==
    call.fn = "extract_comprehensive" /\ DOMAIN result # {} =>
        \A field \in {"title", "author", "subject", "keywords", "creator",
                      "producer", "creation_date", "modification_date"} :
           result.metadata[field] \notin {PyNone, Absent}

(***************************************************************************)
(* C20                                                                     *)
(***************************************************************************)
\* C20: extract_text returns the concatenation of the texts of the pages in
\* ascending page order; it opens the document exactly once and, when no
\* page raises, closes it exactly once before it returns.
C20_TextInPageOrder ==
    call.fn = "extract_text" =>
        /\ app.opens = (IF app.pc = "start" THEN 0 ELSE 1)
        /\ app.closes = (IF app.pc = "returned" THEN 1 ELSE 0)
        /\ app.pc = "returned" =>
              /\ ret = Returned(Return(Concat([k \in 1..Len(call.file.pages) |->
                                                  call.file.pages[k].value])))
              /\ ret.value = ExtractText(call.file)
              /\ ~doc.open
        /\ ~call.file.open_raises
              /\ (\A k \in 1..Len(call.file.pages) : ~call.file.pages[k].raised)
              => app.pc # "raised"

\* a document of three pages, two of them with different texts, was read
C20_Witness ==
    /\ call.fn = "extract_text"
    /\ app.pc = "returned"
    /\ Len(call.file.pages) = 3
    /\ call.file.pages[1].value = <<"a">>
    /\ call.file.pages[2].value = <<"b", "\n">>
    /\ ret.value.value = <<"a", "b", "\n", "a">>
    /\ app.opens = 1 /\ app.closes = 1

(***************************************************************************)
(* C21                                                                     *)
(***************************************************************************)
\* opening, rendering or saving fails at a page extract_images comes to
C21_Fails ==
    \/ call.file.open_raises
    \/ \E k \in 1..Len(call.file.renders) :
          k <= call.max_images /\ call.file.renders[k] # "ok"

\* the image paths of pages 1..min(page_count, max_images), in page order
C21_Paths ==
    LET n == Len(call.file.renders)
        count == IF n < call.max_images THEN n ELSE call.max_images
    IN [k \in 1..count |-> <<app.temp_dir, <<call.file.stem, "_page_", k, ".png">>>>]

\* C21: extract_images never raises; it returns the empty list when opening,
\* rendering or saving fails, and otherwise the paths of the first
\* min(page_count, max_images) pages in page order.  extract returns
\* (text, images) and raises only when extract_text raises.
C21_ImagesOrEmpty ==
    call.fn \in {"extract_images", "extract"} /\ ret.done =>
        LET images == IF C21_Fails THEN <<>> ELSE C21_Paths IN
        IF call.fn = "extract_images"
        THEN ret.value = Return(images)
        ELSE IF ExtractText(call.file).raised
             THEN ret.value = Raise
             ELSE ret.value = Return(<<ExtractText(call.file).value, images>>)

\* extract_images has returned two paths for a document of three pages
C21_Witness ==
    /\ call.fn = "extract_images" /\ ret.done
    /\ call.max_images = 2
    /\ Len(call.file.renders) = 3
    /\ call.file.renders[3] = "save_raises"
    /\ Len(ret.value.value) = 2

(***************************************************************************)
(* C22                                                                     *)
(***************************************************************************)
\* the fallback recovers nothing: it raises, or it finds no table
C22_FallbackFails ==
    LET alt == ExtractTablesAlternative(call.page, call.page_num)
    IN alt.raised \/ alt.value = <<>>

\* C22: _extract_tables never raises: it returns a list whether find_tables,
\* a table's extract() or the fallback raises; when the detection fails and
\* the fallback recovers nothing the list is empty.
C22_NeverRaises ==
    (call.fn = "_extract_tables" /\ ret.done) =>
        /\ "tables" \in DOMAIN ret.value
        /\ call.page.find_tables.raised /\ C22_FallbackFails
              => ret.value.tables = <<>>

\* find_tables raised and the fallback raised too: no table, no exception
C22_Witness ==
    /\ call.fn = "_extract_tables" /\ ret.done
    /\ call.page.find_tables.raised
    /\ ExtractTablesAlternative(call.page, call.page_num).raised
    /\ ret.value.alt_raised
    /\ ret.value.tables = <<>>

(***************************************************************************)
(* C23                                                                     *)
(***************************************************************************)
\* the positions, in the detector's result, of the tables with rows
C23_WithRows(page_tables) ==
    {i \in 1..Len(page_tables) : page_tables[i].extract.value # <<>>}

\* C23: when no call of the native path raises, the tables emitted are those
\* of the detected tables whose extract() has rows, in detection order; each
\* carries its matrix, the Markdown of that matrix and, as table_number, its
\* position in the detector's result.
C23_NativeTables ==
    (call.fn = "_extract_tables" /\ ret.done /\ ~C7_NativeRaises) =>
        LET page_tables == call.page.find_tables.value
            tables == ret.value.tables
        IN /\ {tables[k].table_number : k \in 1..Len(tables)} = C23_WithRows(page_tables)
           /\ \A k \in 1..Len(tables) :
                 /\ tables[k].data # <<>>
                 /\ tables[k].data = page_tables[tables[k].table_number].extract.value
                 /\ tables[k].markdown = ConvertTableToMarkdown(tables[k].data)
                 /\ \A j \in 1..(k - 1) : tables[j].table_number < tables[k].table_number

\* the first detected table has no rows, the second has: one table, number 2
C23_Witness ==
    /\ call.fn = "_extract_tables" /\ ret.done /\ ~C7_NativeRaises
    /\ Len(call.page.find_tables.value) = 2
    /\ call.page.find_tables.value[1].extract.value = <<>>
    /\ Len(ret.value.tables) = 1
    /\ ret.value.tables[1].table_number = 2

(***************************************************************************)
(* C24                                                                     *)
(***************************************************************************)
\* the image at position i of the enumeration is retained: its pixmap is
\* made, has fewer than 4 colour channels and is saved
C24_Retained(i) ==
    LET img == call.page.images[i] IN
    /\ ~img.pixmap.raised
    /\ img.pixmap.value.n - img.pixmap.value.alpha < 4
    /\ ~img.save_raises

\* C24: _extract_page_images never raises; the records it returns are those
\* of the retained images, in enumeration order, each with image_number equal
\* to the position of the image in the enumeration.
C24_NeverRaisesAndNumbers ==
    (call.fn = "_extract_page_images" /\ ret.done) =>
        /\ ~ret.value.raised
        /\ LET images == ret.value.value IN
           /\ {images[k].image_number : k \in 1..Len(images)}
                 = {i \in 1..Len(call.page.images) : C24_Retained(i)}
           /\ \A k \in 1..Len(images) : \A j \in 1..(k - 1) :
                 images[j].image_number < images[k].image_number

\* C24, without the failure of the enumeration: when page.get_images()
\* returns, the method returns the records of the retained images, in
\* enumeration order and numbered by their position in the enumeration.
C24_NumbersWhenEnumerated ==
    (call.fn = "_extract_page_images" /\ ret.done /\ ~call.get_images_raises) =>
        /\ ~ret.value.raised
        /\ LET images == ret.value.value IN
           /\ {images[k].image_number : k \in 1..Len(images)}
                 = {i \in 1..Len(call.page.images) : C24_Retained(i)}
           /\ \A k \in 1..Len(images) : \A j \in 1..(k - 1) :
                 images[j].image_number < images[k].image_number

(***************************************************************************)
(* C25                                                                     *)
(***************************************************************************)
\* the source block is a text block whose spans, concatenated, hold a
\* character that is not whitespace
C25_HasText(block) ==
    /\ block.has_lines
    /\ \E i \in 1..Len(block.lines) : \E j \in 1..Len(block.lines[i].spans) :
       \E k \in 1..Len(block.lines[i].spans[j].text) :
          block.lines[i].spans[j].text[k] \notin Whitespace

\* the records of the source blocks that have text, in source order
C25_Structured ==
    LET source == SelectSeq(call.page.blocks, C25_HasText)
    IN [i \in 1..Len(source) |->
          ProcessTextBlock(source[i], call.page_num, call.page.height)]

C25_Returned ==
    call.fn = "_extract_page_comprehensive" /\ ret.done /\ ~ret.value.raised

\* C25: every block of the page record has non-empty trimmed text; a source
\* block without spans or with only whitespace is in none of the lists; the
\* emitted blocks are those of the source blocks with text, in source order.
C25_OnlyBlocksWithText ==
    C25_Returned =>
        LET page_info == ret.value.value
            n == Len(C25_Structured)
        IN /\ \A list \in {"text_blocks", "structured_content", "headers",
                           "page_footers", "page_headers", "footnotes"} :
              \A i \in 1..Len(page_info[list]) :
                 Strip(page_info[list][i].text) # <<>>
           /\ Len(page_info.text_blocks) \in {n, n + 1}
           /\ SubSeq(page_info.text_blocks, 1, n) = C25_Structured
           /\ page_info.structured_content = page_info.text_blocks

\* a page with a block without spans followed by a block with text: one block
C25_Witness ==
    /\ C25_Returned
    /\ Len(call.page.blocks) = 2
    /\ call.page.blocks[1].has_lines
    /\ \A i \in 1..Len(call.page.blocks[1].lines) :
          call.page.blocks[1].lines[i].spans = <<>>
    /\ Len(call.page.blocks[1].lines) = 1
    /\ C25_HasText(call.page.blocks[2])
    /\ Len(ret.value.value.structured_content) = 1

(***************************************************************************)
(* C26                                                                     *)
(***************************************************************************)
\* the block that holds the unstructured text of the page
C26_FallbackBlock ==
    [text |-> call.page.get_text.value,
     page_number |-> call.page_num + 1,
     bbox |-> <<0, 0, call.page.width, call.page.height>>,
     font_size |-> Rat(12, 1),
     is_bold |-> FALSE, is_italic |-> FALSE,
     is_header |-> FALSE, header_level |-> 0,
     is_footer |-> FALSE, is_page_header |-> FALSE, is_footnote |-> FALSE,
     y_position |-> 0]

\* the page record has the structured blocks, followed by extra, in
\* text_blocks and structured_content, and only structured blocks in the
\* role lists
C26_Record(extra) ==
    LET page_info == ret.value.value IN
    /\ page_info.text_blocks = C25_Structured \o extra
    /\ page_info.structured_content = C25_Structured \o extra
    /\ \A list \in {"headers", "page_footers", "page_headers", "footnotes"} :
          page_info[list]
             = SelectSeq(C25_Structured, LAMBDA b : RoleList(b) = list)

\* the unstructured text, trimmed, is longer than text, trimmed
C26_LongerThan(text) ==
    /\ ~call.page.get_text.raised
    /\ Len(Strip(call.page.get_text.value)) > Len(Strip(text))

C27_Lines(markdown) ==
    LET starts == C17_LineStarts(markdown)
        nth(k) == CHOOSE a \in starts : Cardinality({b \in starts : b < a}) = k - 1
    IN [k \in 1..Cardinality(starts) |-> C17_LineAt(markdown, nth(k))]

\* text, trimmed, with every run of whitespace replaced by one space
C27_Collapsed(text) ==
    LET s == Strip(text)
        kept == SelectSeq([i \in 1..Len(s) |-> i],
                          LAMBDA i : s[i] \notin Whitespace \/ s[i - 1] \notin Whitespace)
    IN [k \in 1..Len(kept) |->
          IF s[kept[k]] \in Whitespace THEN " " ELSE s[kept[k]]]

\* the blocks of the document with the Body role whose trimmed text is
\* longer than min_length, page after page, in block order
C27_BodyBlocks(min_length) ==
    SelectSeq(Concat([i \in 1..Len(result.pages) |->
                        result.pages[i].structured_content]),
              LAMBDA block : /\ RoleList(block) = "none"
                             /\ Len(Strip(block.text)) > min_length)

\* the sequence p is a subsequence of lines
RECURSIVE C27_Within(_, _)
C27_Within(p, lines) ==
    IF p = <<>> THEN TRUE
    ELSE IF lines = <<>> THEN FALSE
    ELSE IF Head(p) = Head(lines) THEN C27_Within(Tail(p), Tail(lines))
    ELSE C27_Within(p, Tail(lines))

C27_Paragraphs(min_length) ==
    LET blocks == C27_BodyBlocks(min_length)
    IN [i \in 1..Len(blocks) |-> C27_Collapsed(blocks[i].text)]

C27_Rendered ==
    call.fn = "_generate_markdown" /\ ret.done /\ ~ret.value.raised

\* C27: every Body block with non-empty trimmed text appears in the rendered
\* Markdown as a paragraph, its whitespace runs collapsed to one space, in
\* the block order of the pages.
C27_EveryBodyBlock ==
    C27_Rendered => C27_Within(C27_Paragraphs(0), C27_Lines(ret.value.value))

\* C27, for the blocks the code renders: every Body block whose trimmed text
\* (before the collapsing) is longer than 10 characters appears as such a
\* paragraph, in block order; a shorter Body block has no paragraph.
C27_BodyBlocksOverTenCharacters ==
    C27_Rendered =>
        LET lines == C27_Lines(ret.value.value) IN
        /\ C27_Within(C27_Paragraphs(10), lines)
        /\ \A i \in 1..Len(C27_BodyBlocks(0)) :
              Len(Strip(C27_BodyBlocks(0)[i].text)) <= 10 =>
                 \A k \in 1..Len(lines) : lines[k] # C27_Paragraphs(0)[i]

(***************************************************************************)
(* C28                                                                     *)
(***************************************************************************)
\* "## Page N" for the page record page_info
C28_Heading(page_info) ==
    <<"#", "#", " ", "P", "a", "g", "e", " ">> \o IntStr(page_info.page_number)

\* the titles of the page-scoped sections with the list of the page record
\* each is made from: "### Footnotes", "### Page Header", "### Page Footer"
C28_Sections ==
    {[title |-> <<"#", "#", "#", " ", "F", "o", "o", "t", "n", "o", "t", "e", "s">>,
      list |-> "footnotes"],
     [title |-> <<"#", "#", "#", " ", "P", "a", "g", "e", " ", "H", "e", "a", "d",
                  "e", "r">>,
      list |-> "page_headers"],
     [title |-> <<"#", "#", "#", " ", "P", "a", "g", "e", " ", "F", "o", "o", "t",
                  "e", "r">>,
      list |-> "page_footers"]}

\* C28: every section title of the rendered Markdown stands under the
\* heading "## Page N" of the page it was made from: the nearest page heading
\* before it exists and is that of a page which has the section's content;
\* so a page without heading has no section.
C28_SectionsUnderOwnHeading ==
    C27_Rendered =>
        LET lines == C27_Lines(ret.value.value)
            IsHeading(h) == \E i \in 1..Len(result.pages) :
                               lines[h] = C28_Heading(result.pages[i])
        IN \A k \in 1..Len(lines) : \A section \in C28_Sections :
              lines[k] = section.title =>
                 \E h \in 1..(k - 1) : \E i \in 1..Len(result.pages) :
                    /\ lines[h] = C28_Heading(result.pages[i])
                    /\ \A g \in (h + 1)..(k - 1) : ~IsHeading(g)
                    /\ result.pages[i][section.list] # <<>>


(***************************************************************************)
(* C29  the PDF handle of the operations that open the document            *)
(***************************************************************************)
\* the operations whose model counts the calls of fitz.open and doc.close
C29_Counted ==
    call.fn \in {"extract_text", "extract_text_with_formatting",
                 "extract_raw_text_only", "extract_detailed_text",
                 "extract_images"}

C29_Operation == C29_Counted \/ call.fn = "extract_comprehensive"

\* fitz.open has returned the handle
C29_Opened ==
    IF C29_Counted THEN app.opens = 1 /\ ~call.file.open_raises
    ELSE doc.len > 0

\* how many times the operation has closed the handle
C29_Closes ==
    IF C29_Counted THEN app.closes
    ELSE IF C29_Opened /\ ~doc.open THEN 1 ELSE 0

\* the operation has ended because of an exception: it raised, or
\* extract_images returned [] from its except clause
C29_Exception ==
    /\ ret.done
    /\ IF call.fn = "extract_images" THEN C21_Fails ELSE ret.value.raised

\* every page the loop has to visit has been visited without an exception
C29_AllPagesProcessed ==
    /\ C29_Opened
    /\ IF call.fn = "extract_comprehensive"
       THEN DOMAIN result # {} /\ Len(result.pages) = doc.len
       ELSE IF call.fn = "extract_images"
       THEN app.page_num = ImageCount(doc.len, call.max_images)
       ELSE app.page_num = doc.len

\* an exception after the open: the handle is still open, it was never
\* closed, and the operation raises (extract_images returns [])
C29_LeftOpen ==
    C29_Opened /\ C29_Exception =>
        /\ C29_Closes = 0
        /\ doc.open
        /\ IF call.fn = "extract_images" THEN ret.value = Return(<<>>)
           ELSE ret.value = Raise

C30_Returned == call.fn = "extract_comprehensive" /\ dpc = "returned"

\* the sum of the lengths of the pages' images lists
RECURSIVE C30_Images(_)
C30_Images(pages) ==
    IF pages = <<>> THEN 0
    ELSE Len(Head(pages).images) + C30_Images(Tail(pages))

\* C30: after extract_comprehensive returns, total_pages is the number of
\* page records, total_tables the length of the aggregated tables list,
\* ocr_processed_images the length of the aggregated images_with_text list
\* and at most total_images, total_images the sum of the pages' images
\* lists, total_text_blocks the length of the aggregated structured_content
\* list, and every page's text_blocks and structured_content are the same
\* sequence
C30_SummaryAgreesWithData ==
    C30_Returned =>
        LET summary == result.extraction_summary IN
        /\ summary.total_pages = Len(result.pages)
        /\ summary.total_tables = Len(result.tables)
        /\ summary.ocr_processed_images = Len(result.images_with_text)
        /\ summary.ocr_processed_images <= summary.total_images
        /\ summary.total_images = C30_Images(result.pages)
        /\ summary.total_text_blocks = Len(result.structured_content)
        /\ \A k \in 1..Len(result.pages) :
              result.pages[k].text_blocks = result.pages[k].structured_content

\* a returned document of two pages with text blocks, a table, and more
\* images than images with OCR text
C30_Witness ==
    /\ C30_Returned
    /\ Len(result.pages) = 2
    /\ result.pages[2].text_blocks # <<>>
    /\ result.extraction_summary.total_text_blocks > Len(result.pages[2].text_blocks)
    /\ result.extraction_summary.total_tables > 0
    /\ result.extraction_summary.ocr_processed_images > 0
    /\ result.extraction_summary.total_images
          > result.extraction_summary.ocr_processed_images

====
